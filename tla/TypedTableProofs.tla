-------------------------- MODULE TypedTableProofs --------------------------
(***************************************************************************)
(* What holds of TypedTable for every value of its constants: the          *)
(* definition survives its page (TypeCorrect), SQL writes stay within what *)
(* SELECT shows (SqlWithinSelect), rows read back as they were given       *)
(* (RowRoundTrip, ReadsTrue), ORDER BY orders (OrderTrue), and lookups are *)
(* exact (LookupsTrue).                                                    *)
(***************************************************************************)
EXTENDS TypedTable, FiniteSetTheorems, SequenceTheorems, WellFoundedInduction, TLAPS

\* The operators that Query folds, and what they need besides.
ThenCondition(row, m, c) == IF c.logic = "OR" THEN m \/ Evaluate(row, c)
                            ELSE m /\ Evaluate(row, c)

Conditions(row, base, s) == FoldLeft(LAMBDA m, c : IF c.logic = "OR" THEN m \/ Evaluate(row, c)
                                                   ELSE m /\ Evaluate(row, c), base, s)
\* The conditions in s decided one after the other.
Decides(h, row, base, s, n) == /\ h[0] = base
                               /\ \A k \in 1..n : h[k] = ThenCondition(row, h[k - 1], s[k])
                               /\ h[n] = Conditions(row, base, s)
ByCondition == INSTANCE Folding WITH Op <- ThenCondition
BySwap == INSTANCE Folding WITH Op <- SwapAt
ByRound == INSTANCE Folding WITH Op <- Round

-----------------------------------------------------------------------------
(* UPDATE and DELETE stay within what SELECT shows *)

LEMMA ConditionSteps ==
  ASSUME NEW row, NEW base, NEW s, NEW n \in Nat, DOMAIN s = 1..n
  PROVE  \E h : Decides(h, row, base, s, n)
<1>1. Conditions(row, base, s) = ByCondition!FoldTable(row, base, s)[DOMAIN s]
  BY DEF Conditions, FoldLeft, MapThenFoldSet, ByCondition!FoldTable, ByCondition!IsTable,
         ByCondition!FoldBy, Max, ByCondition!Max, ThenCondition
<1>2. PICK h : ByCondition!Steps(row, h, base, s, n) /\ ByCondition!FoldTable(row, base, s)[DOMAIN s] = h[n]
  BY ByCondition!FoldSteps
<1>3. h[0] = base /\ \A k \in 1..n : h[k] = ThenCondition(row, h[k - 1], s[k])
  BY <1>2 DEF ByCondition!Steps
<1>4. QED
  BY <1>1, <1>2, <1>3 DEF Decides

\* A row that meets every condition by the lights of UPDATE and DELETE meets the list of them;
\* where AND joins all of them, no other does.
LEMMA TouchesMatches ==
  ASSUME NEW row, NEW conds, NEW n \in Nat, DOMAIN conds = 1..n, conds \in Seq(Range(conds))
  PROVE  /\ Touches(row, conds) => Matches(row, conds)
         /\ (\A i \in 1..n : conds[i].op \in {"=", "<>"} /\ conds[i].logic = "AND")
              => (Touches(row, conds) <=> Matches(row, conds))
<1>1. CASE n = 0
  <2>1. conds = <<>>
    BY <1>1
  <2>2. Touches(row, conds) /\ Matches(row, conds)
    BY <1>1, <2>1 DEF Touches, Matches
  <2>3. QED
    BY <2>2
<1>2. CASE n > 0
  <2> DEFINE s == Tail(conds)
             base == Evaluate(row, conds[1])
             Yes(i) == Evaluate(row, conds[i])
  <2>1. /\ conds # <<>> /\ 1 \in 1..n /\ n - 1 \in Nat
        /\ DOMAIN s = 1..(n - 1) /\ \A k \in 1..(n - 1) : s[k] = conds[k + 1] /\ k + 1 \in 1..n
    BY <1>2
  <2>2. PICK h : /\ h[0] = base
                 /\ \A k \in 1..(n - 1) : h[k] = ThenCondition(row, h[k - 1], s[k])
                 /\ h[n - 1] = Conditions(row, base, s)
    <3> DEFINE m == n - 1
    <3>1. m \in Nat /\ DOMAIN s = 1..m
      BY <2>1
    <3> HIDE DEF s, base, m
    <3>2. \E h : Decides(h, row, base, s, m)
      BY <3>1, ConditionSteps, Zenon
    <3>3. QED
      BY <3>2 DEF m, Decides
  <2>3. Matches(row, conds) <=> h[n - 1]
    BY <2>1, <2>2, Zenon DEF Matches, Conditions
  <2>4. \A k \in 1..(n - 1) : h[k] = IF conds[k + 1].logic = "OR" THEN h[k - 1] \/ Yes(k + 1)
                                     ELSE h[k - 1] /\ Yes(k + 1)
    BY <2>1, <2>2 DEF ThenCondition
  <2>5. h[0] = Yes(1)
    BY <2>2
  <2> HIDE DEF s, base
  <2>6. Touches(row, conds) <=> \A i \in 1..n : conds[i].op \in {"=", "<>"} /\ Yes(i)
    BY DEF Touches, EvaluateRow
  <2> HIDE DEF Yes
  <2>7. ASSUME \A i \in 1..n : Yes(i) PROVE h[n - 1]
    <3> DEFINE P == {k \in Nat : k <= n - 1 => h[k]}
    <3>1. 0 \in P
      <4>1. Yes(1)
        BY <2>1, <2>7
      <4>2. h[0]
        BY <2>5, <4>1, Zenon
      <4>3. QED
        BY <4>2
    <3>2. ASSUME NEW k \in Nat, k \in P PROVE k + 1 \in P
      <4>1. SUFFICES ASSUME k + 1 <= n - 1 PROVE h[k + 1]
        OBVIOUS
      <4>2. k + 1 \in 1..(n - 1) /\ (k + 1) - 1 = k /\ (k + 1) + 1 \in 1..n /\ k <= n - 1
        BY <2>1, <4>1
      <4>3. h[k] /\ Yes((k + 1) + 1)
        BY <2>7, <3>2, <4>2
      <4>4. h[k + 1] = IF conds[(k + 1) + 1].logic = "OR" THEN h[k] \/ Yes((k + 1) + 1)
                       ELSE h[k] /\ Yes((k + 1) + 1)
        BY <2>4, <4>2
      <4>5. QED
        BY <4>3, <4>4, Zenon
    <3> HIDE DEF P
    <3>3. Nat \subseteq P
      BY <3>1, <3>2, ByCondition!Inductive
    <3>4. QED
      BY <2>1, <3>3 DEF P
  <2>8. ASSUME \A i \in 1..n : conds[i].logic = "AND", h[n - 1], NEW j \in 1..n PROVE Yes(j)
    <3> DEFINE P == {k \in Nat : k <= n - 1 /\ h[k] => \A i \in 1..(k + 1) : Yes(i)}
    <3>1. 0 \in P
      <4>1. \A i \in 1..(0 + 1) : i = 1
        OBVIOUS
      <4>2. h[0] => Yes(1)
        BY <2>5
      <4>3. QED
        BY <4>1, <4>2
    <3>2. ASSUME NEW k \in Nat, k \in P PROVE k + 1 \in P
      <4>1. SUFFICES ASSUME k + 1 <= n - 1, h[k + 1], NEW i \in 1..((k + 1) + 1) PROVE Yes(i)
        OBVIOUS
      <4>2. k + 1 \in 1..(n - 1) /\ (k + 1) - 1 = k /\ (k + 1) + 1 \in 1..n /\ k <= n - 1
        BY <2>1, <4>1
      <4>3. conds[(k + 1) + 1].logic # "OR"
        BY <2>8, <4>2
      <4>4. h[k + 1] = (h[k] /\ Yes((k + 1) + 1))
        BY <2>4, <4>2, <4>3
      <4>5. h[k] /\ Yes((k + 1) + 1)
        BY <4>1, <4>4, Zenon
      <4>6. i \in 1..(k + 1) \/ i = (k + 1) + 1
        OBVIOUS
      <4>7. QED
        BY <3>2, <4>2, <4>5, <4>6
    <3> HIDE DEF P
    <3>3. Nat \subseteq P
      BY <3>1, <3>2, ByCondition!Inductive
    <3>4. \A i \in 1..((n - 1) + 1) : Yes(i)
      BY <2>1, <2>8, <3>3 DEF P
    <3>5. QED
      BY <2>1, <3>4
  <2>9. QED
    BY <2>3, <2>6, <2>7, <2>8
<1>3. QED
  BY <1>1, <1>2

\* The statements compare texts, and so do both evaluators.
LEMMA SqlFields ==
  ASSUME NEW where \in Wheres
  PROVE  /\ Sql(where) \in Seq(Range(Sql(where))) /\ DOMAIN Sql(where) = DOMAIN where
         /\ Len(where) \in Nat /\ DOMAIN where = 1..Len(where)
         /\ \A i \in DOMAIN where : where[i].op \in {"=", "<>"} =>
              Sql(where)[i].op = where[i].op /\ Sql(where)[i].logic = where[i].logic
<1>1. where \in Seq(Range(where))
  BY WhereAssumption
<1>2. Len(where) \in Nat /\ DOMAIN where = 1..Len(where)
  BY <1>1
<1>3. DOMAIN Sql(where) = DOMAIN where /\ \A i \in DOMAIN where : Sql(where)[i] = SqlCondition(where[i])
  BY DEF Sql
<1>4. Sql(where) \in Seq(Range(Sql(where)))
  <2>1. Sql(where) = [i \in 1..Len(where) |-> SqlCondition(where[i])]
    BY <1>2 DEF Sql
  <2>2. Range(Sql(where)) = {SqlCondition(where[i]) : i \in 1..Len(where)}
    BY <2>1 DEF Range
  <2>3. QED
    BY <1>2, <2>1, <2>2
<1>5. ASSUME NEW i \in DOMAIN where, where[i].op \in {"=", "<>"}
      PROVE  Sql(where)[i].op = where[i].op /\ Sql(where)[i].logic = where[i].logic
  <2>1. where[i] \in Range(where)
    BY DEF Range
  <2>2. where[i] \in [col : Nat, op : STRING, val : {where[i].val}, logic : STRING]
    BY <2>1, WhereAssumption
  <2>3. Sql(where)[i] = [where[i] EXCEPT !.val = Text(where[i].val.s)]
    BY <1>3, <1>5, Zenon DEF SqlCondition, SqlOps
  <2>4. QED
    BY <2>2, <2>3
<1>6. QED
  BY <1>2, <1>3, <1>4, <1>5

\* An UPDATE or DELETE statement changes no row that SELECT would not show for the same WHERE,
\* and with = and <> joined by AND it changes exactly those (query.go:609-691, 180-201).
THEOREM SqlWithinSelect == Spec => []WritesWithinSelect
<1>1. WritesWithinSelect
  <2>1. SUFFICES ASSUME NEW where \in Wheres
                 PROVE  LET touched == {r \in Live : Touches(Values(r), Sql(where))}
                            shown == {r \in Live : Matches(Values(r), Sql(where))}
                        IN /\ touched \subseteq shown
                           /\ (\A i \in DOMAIN where : where[i].op \in {"=", "<>"} /\ where[i].logic = "AND")
                                => touched = shown
    BY DEF WritesWithinSelect
  <2> DEFINE n == Len(where)
  <2>2. /\ Sql(where) \in Seq(Range(Sql(where))) /\ DOMAIN Sql(where) = 1..n
        /\ n \in Nat /\ DOMAIN where = 1..n
        /\ \A i \in 1..n : where[i].op \in {"=", "<>"} =>
             Sql(where)[i].op = where[i].op /\ Sql(where)[i].logic = where[i].logic
    BY SqlFields
  <2> HIDE DEF n
  <2>3. ASSUME NEW r \in Live
        PROVE  /\ Touches(Values(r), Sql(where)) => Matches(Values(r), Sql(where))
               /\ (\A i \in 1..n : Sql(where)[i].op \in {"=", "<>"} /\ Sql(where)[i].logic = "AND")
                    => (Touches(Values(r), Sql(where)) <=> Matches(Values(r), Sql(where)))
    <3> DEFINE conds == Sql(where)  row == Values(r)
    <3>1. DOMAIN conds = 1..n /\ conds \in Seq(Range(conds)) /\ n \in Nat
      BY <2>2
    <3> HIDE DEF conds, row
    <3>2. /\ Touches(row, conds) => Matches(row, conds)
          /\ (\A i \in 1..n : conds[i].op \in {"=", "<>"} /\ conds[i].logic = "AND")
               => (Touches(row, conds) <=> Matches(row, conds))
      BY <3>1, TouchesMatches
    <3>3. QED
      BY <3>2 DEF conds, row
  <2>4. (\A i \in DOMAIN where : where[i].op \in {"=", "<>"} /\ where[i].logic = "AND")
          => \A i \in 1..n : Sql(where)[i].op \in {"=", "<>"} /\ Sql(where)[i].logic = "AND"
    BY <2>2
  <2>5. QED
    BY <2>3, <2>4
<1>2. QED
  BY <1>1, PTL
-----------------------------------------------------------------------------
(* Sequences and column records *)

LEMMA SeqParts ==
  ASSUME NEW S, NEW s \in Seq(S)
  PROVE  /\ Len(s) \in Nat /\ DOMAIN s = 1..Len(s) /\ \A i \in 1..Len(s) : s[i] \in S
         /\ s = [i \in 1..Len(s) |-> s[i]]
  OBVIOUS

LEMMA SeqMade ==
  ASSUME NEW S, NEW n \in Nat, NEW f, f = [i \in 1..n |-> f[i]], \A i \in 1..n : f[i] \in S
  PROVE  f \in Seq(S) /\ Len(f) = n /\ DOMAIN f = 1..n
  OBVIOUS

\* Columns with offsets in X.
ColumnSet(X) == [type : Types, len : Nat, nullable : BOOLEAN, auto : BOOLEAN, off : X]
ColumnOf(t, l, n, a, o) == [type |-> t, len |-> l, nullable |-> n, auto |-> a, off |-> o]

LEMMA ColumnParts ==
  ASSUME NEW X, NEW c \in ColumnSet(X)
  PROVE  /\ c.type \in Types /\ c.len \in Nat /\ c.nullable \in BOOLEAN /\ c.auto \in BOOLEAN /\ c.off \in X
         /\ c = ColumnOf(c.type, c.len, c.nullable, c.auto, c.off)
         /\ [c EXCEPT !.nullable = TRUE] = ColumnOf(c.type, c.len, TRUE, c.auto, c.off)
<1> DEFINE d == [c EXCEPT !.nullable = TRUE]
<1>1. c.type \in Types /\ c.len \in Nat /\ c.nullable \in BOOLEAN /\ c.auto \in BOOLEAN /\ c.off \in X
  BY DEF ColumnSet
<1>2. \A e \in ColumnSet(X) : e = ColumnOf(e.type, e.len, e.nullable, e.auto, e.off)
  BY DEF ColumnSet, ColumnOf
<1>3. d \in ColumnSet(X)
  BY Zenon DEF ColumnSet
<1>4. d.type = c.type /\ d.len = c.len /\ d.auto = c.auto /\ d.off = c.off /\ d.nullable = TRUE
  BY DEF ColumnSet
<1> HIDE DEF d
<1>5. d = ColumnOf(c.type, c.len, TRUE, c.auto, c.off)
  BY <1>2, <1>3, <1>4, Zenon
<1>6. QED
  BY <1>1, <1>2, <1>5 DEF d

LEMMA SizeFacts == \A t \in Types : Size[t] \in Nat /\ (Size[t] = 0 <=> Variable(t))
  BY DEF Types, Size, Variable

-----------------------------------------------------------------------------
(* Definitions survive their page *)

\* The number of variable-length columns before column i.
VarsBefore(C, i) == Cardinality({j \in 1..(i - 1) : Variable(C[j].type)})

\* Columns as a definition page can tell them, with offsets in X: those of variable length are
\* numbered from 0, and only types without a size have no length.
Laid(C, X) ==
  /\ C \in Seq(ColumnSet(X))
  /\ \A i \in DOMAIN C : /\ C[i].len = 0 => Size[C[i].type] = 0
                         /\ Variable(C[i].type) => C[i].off = VarsBefore(C, i)

Offs(d) == {Place(d.cols, i) : i \in DOMAIN d.cols}

\* Numbers of variable-length columns are a matter of types alone.
LEMMA SameVars ==
  ASSUME NEW C, NEW D, NEW n \in Nat, \A i \in 1..n : C[i].type = D[i].type
  PROVE  \A i \in 1..n : VarsBefore(C, i) = VarsBefore(D, i)
<1>1. SUFFICES ASSUME NEW i \in 1..n PROVE VarsBefore(C, i) = VarsBefore(D, i)
  OBVIOUS
<1>2. \A j \in 1..(i - 1) : j \in 1..n
  OBVIOUS
<1>3. {j \in 1..(i - 1) : Variable(C[j].type)} = {j \in 1..(i - 1) : Variable(D[j].type)}
  BY <1>2
<1>4. QED
  BY <1>3, Zenon DEF VarsBefore

LEMMA DefParts ==
  ASSUME NEW d \in Schemas
  PROVE  /\ Len(d.cols) \in Nat /\ DOMAIN d.cols = 1..Len(d.cols)
         /\ \A i \in 1..Len(d.cols) : /\ d.cols[i].type \in Types /\ d.cols[i].len \in Int
                                      /\ d.cols[i].nullable \in BOOLEAN /\ d.cols[i].auto \in BOOLEAN
<1> DEFINE D == [type : Types, len : Int, nullable : BOOLEAN, auto : BOOLEAN]
<1>1. d.cols \in Seq(D)
  BY SchemaAssumption, Zenon
<1>2. \A c \in D : c.type \in Types /\ c.len \in Int /\ c.nullable \in BOOLEAN /\ c.auto \in BOOLEAN
  OBVIOUS
<1> HIDE DEF D
<1>3. QED
  BY <1>1, <1>2, SeqParts

LEMMA ColumnsLaid ==
  ASSUME NEW d \in Schemas
  PROVE  /\ Laid(Columns(d), Offs(d)) /\ DOMAIN Columns(d) = DOMAIN d.cols
         /\ \A i \in DOMAIN d.cols : Columns(d)[i].type = d.cols[i].type /\ Columns(d)[i].off = Place(d.cols, i)
<1> DEFINE C == Columns(d)  n == Len(d.cols)  l(i) == ColLen(d.cols[i])
<1>1. /\ n \in Nat /\ DOMAIN d.cols = 1..n
      /\ \A i \in 1..n : /\ d.cols[i].type \in Types /\ d.cols[i].len \in Int
                         /\ d.cols[i].nullable \in BOOLEAN /\ d.cols[i].auto \in BOOLEAN
  BY DefParts
<1>2. C = [i \in 1..n |-> ColumnOf(d.cols[i].type, l(i), d.cols[i].nullable, d.cols[i].auto, Place(d.cols, i))]
  BY <1>1 DEF Columns, ColumnOf
<1> HIDE DEF C, n
<1>3. ASSUME NEW i \in 1..n
      PROVE  /\ C[i] \in ColumnSet(Offs(d))
             /\ C[i].type = d.cols[i].type /\ C[i].off = Place(d.cols, i)
             /\ C[i].len = 0 => Size[C[i].type] = 0
  <2>1. Place(d.cols, i) \in Offs(d)
    BY <1>1 DEF Offs
  <2>2. l(i) \in Nat /\ (l(i) = 0 => Size[d.cols[i].type] = 0)
    BY <1>1, SizeFacts DEF ColLen
  <2>3. C[i] = ColumnOf(d.cols[i].type, l(i), d.cols[i].nullable, d.cols[i].auto, Place(d.cols, i))
    BY <1>2
  <2> HIDE DEF l
  <2>4. QED
    BY <1>1, <2>1, <2>2, <2>3 DEF ColumnOf, ColumnSet
<1>4. C = [i \in 1..n |-> C[i]]
  BY <1>2
<1>5. C \in Seq(ColumnSet(Offs(d))) /\ DOMAIN C = 1..n
  BY <1>1, <1>3, <1>4, SeqMade
<1>6. ASSUME NEW i \in 1..n, Variable(C[i].type) PROVE C[i].off = VarsBefore(C, i)
  <2>1. VarsBefore(C, i) = VarsBefore(d.cols, i)
    BY <1>1, <1>3, SameVars, Zenon
  <2>2. QED
    BY <1>3, <1>6, <2>1, Zenon DEF Place, VarsBefore
<1>7. QED
  BY <1>1, <1>3, <1>5, <1>6 DEF Laid, C

LEMMA ShapeLaid ==
  ASSUME NEW C, NEW X, Laid(C, X)
  PROVE  /\ Laid(Shape(C), X) /\ Shape(Shape(C)) = Shape(C) /\ DOMAIN Shape(C) = DOMAIN C
         /\ \A i \in DOMAIN C : /\ Shape(C)[i].type = C[i].type /\ Shape(C)[i].len = C[i].len
                                /\ Shape(C)[i].auto = C[i].auto /\ Shape(C)[i].off = C[i].off
                                /\ Shape(C)[i].nullable = TRUE
<1> DEFINE n == Len(C)
           S == Shape(C)
<1>1. n \in Nat /\ DOMAIN C = 1..n /\ \A i \in 1..n : C[i] \in ColumnSet(X)
  BY SeqParts DEF Laid
<1>2. S = [i \in 1..n |-> [C[i] EXCEPT !.nullable = TRUE]]
  BY <1>1 DEF Shape
<1> HIDE DEF S, n
<1>3. ASSUME NEW i \in 1..n
      PROVE  /\ S[i] \in ColumnSet(X) /\ S[i].type = C[i].type /\ S[i].len = C[i].len
             /\ S[i].auto = C[i].auto /\ S[i].off = C[i].off /\ S[i].nullable = TRUE
             /\ [S[i] EXCEPT !.nullable = TRUE] = S[i]
  <2>1. S[i] = ColumnOf(C[i].type, C[i].len, TRUE, C[i].auto, C[i].off)
    BY <1>1, <1>2, ColumnParts, Zenon
  <2>2. /\ C[i].type \in Types /\ C[i].len \in Nat /\ C[i].auto \in BOOLEAN /\ C[i].off \in X
    BY <1>1, ColumnParts, Zenon
  <2>3. /\ S[i] \in ColumnSet(X) /\ S[i].type = C[i].type /\ S[i].len = C[i].len
        /\ S[i].auto = C[i].auto /\ S[i].off = C[i].off /\ S[i].nullable = TRUE
    BY <2>1, <2>2 DEF ColumnOf, ColumnSet
  <2>4. [S[i] EXCEPT !.nullable = TRUE] = ColumnOf(S[i].type, S[i].len, TRUE, S[i].auto, S[i].off)
    BY <2>3, ColumnParts, Zenon
  <2>5. QED
    BY <2>1, <2>3, <2>4, Zenon
<1>4. S = [i \in 1..n |-> S[i]]
  BY <1>2
<1>5. S \in Seq(ColumnSet(X)) /\ DOMAIN S = 1..n
  BY <1>1, <1>3, <1>4, SeqMade, Zenon
<1>6. Shape(S) = S
  <2>1. Shape(S) = [i \in 1..n |-> [S[i] EXCEPT !.nullable = TRUE]]
    BY <1>5 DEF Shape
  <2>2. QED
    BY <1>3, <1>4, <2>1, Zenon
<1>7. ASSUME NEW i \in 1..n
      PROVE  /\ Variable(S[i].type) => S[i].off = VarsBefore(S, i)
             /\ S[i].len = 0 => Size[S[i].type] = 0
  <2>0. \A j \in 1..n : S[j].type = C[j].type
    BY <1>3, Zenon
  <2>1. VarsBefore(S, i) = VarsBefore(C, i)
    BY <1>1, <2>0, SameVars, Zenon
  <2>2. /\ C[i].len = 0 => Size[C[i].type] = 0
        /\ Variable(C[i].type) => C[i].off = VarsBefore(C, i)
    BY <1>1 DEF Laid
  <2>3. QED
    BY <1>3, <2>1, <2>2, Zenon
<1>8. Laid(S, X)
  BY <1>5, <1>7 DEF Laid
<1>9. QED
  BY <1>1, <1>3, <1>5, <1>6, <1>8, Zenon DEF S

\* A definition page tells everything about a column but whether it is nullable.
LEMMA PageRoundTrip ==
  ASSUME NEW C, NEW X, Laid(C, X)
  PROVE  ParseDef(WriteDef(C)) = Shape(C)
<1> DEFINE n == Len(C)
           W == WriteDef(C)
           P == ParseDef(W)
           len(i) == IF W[i].type = "Text" THEN W[i].len \div 2 ELSE W[i].len
           off(i) == IF Variable(W[i].type) THEN W[i].var ELSE W[i].fixed
<1>1. n \in Nat /\ DOMAIN C = 1..n /\ \A i \in 1..n : C[i] \in ColumnSet(X)
  BY SeqParts DEF Laid
<1>2. DOMAIN W = 1..n /\ \A i \in 1..n : W[i] = WriteColumn(C, i)
  BY <1>1 DEF WriteDef
<1> HIDE DEF W, n
<1>3. P = [i \in 1..n |-> ColumnOf(W[i].type, len(i), TRUE, W[i].auto, off(i))]
  BY <1>2 DEF ParseDef, ColumnOf
<1>4. ASSUME NEW i \in 1..n
      PROVE  [C[i] EXCEPT !.nullable = TRUE] = ColumnOf(W[i].type, len(i), TRUE, W[i].auto, off(i))
  <2> DEFINE l == IF C[i].len = 0 THEN Size[C[i].type] ELSE C[i].len
             c == C[i]
             v == VarsBefore(C, i)
  <2>1. c.len \in Nat /\ (c.len = 0 => Size[c.type] = 0) /\ (Variable(c.type) => c.off = v)
    BY <1>1, ColumnParts, Zenon DEF Laid
  <2>2. l = c.len /\ l \in Nat
    BY <2>1
  <2>3. W[i] = [type |-> c.type, index |-> i - 1, auto |-> c.auto,
                fixed |-> IF Variable(c.type) THEN 0 ELSE c.off,
                var |-> IF Variable(c.type) THEN v ELSE 0,
                len |-> IF c.type = "Text" THEN 2 * l ELSE l]
    BY <1>2, Zenon DEF WriteColumn, VarsBefore
  <2>4. [c EXCEPT !.nullable = TRUE] = ColumnOf(c.type, c.len, TRUE, c.auto, c.off)
    BY <1>1, ColumnParts, Zenon
  <2> HIDE DEF l, c, v
  <2>5. (2 * l) \div 2 = l
    BY <2>2
  <2>6. len(i) = c.len
    BY <2>2, <2>3, <2>5
  <2>7. off(i) = c.off
    BY <2>1, <2>3
  <2>8. W[i].type = c.type /\ W[i].auto = c.auto
    BY <2>3
  <2> HIDE DEF len, off
  <2>9. QED
    BY <2>4, <2>6, <2>7, <2>8 DEF c
<1>5. Shape(C) = [i \in 1..n |-> [C[i] EXCEPT !.nullable = TRUE]]
  BY <1>1 DEF Shape
<1> HIDE DEF P, len, off
<1>6. P = Shape(C)
  BY <1>3, <1>4, <1>5, Zenon
<1>7. QED
  BY <1>6 DEF P, W
-----------------------------------------------------------------------------
(* Types *)

ListOf(s) == s \in Seq(Range(s))

LEMMA ListParts ==
  ASSUME NEW s, ListOf(s)
  PROVE  Len(s) \in Nat /\ DOMAIN s = 1..Len(s) /\ s = [i \in 1..Len(s) |-> s[i]]
  BY SeqParts DEF ListOf

LEMMA ListMade ==
  ASSUME NEW n \in Nat, NEW s, s = [i \in 1..n |-> s[i]]
  PROVE  ListOf(s) /\ Len(s) = n /\ DOMAIN s = 1..n
<1>1. DOMAIN s = 1..n
  OBVIOUS
<1>2. \A i \in 1..n : s[i] \in Range(s)
  BY <1>1 DEF Range
<1>3. QED
  BY <1>1, <1>2, SeqMade DEF ListOf

LEMMA ListAppend ==
  ASSUME NEW s, ListOf(s), NEW x
  PROVE  /\ ListOf(Append(s, x)) /\ Len(Append(s, x)) = Len(s) + 1
         /\ DOMAIN Append(s, x) = 1..(Len(s) + 1)
         /\ \A i \in 1..Len(s) : Append(s, x)[i] = s[i]
         /\ Append(s, x)[Len(s) + 1] = x
<1> DEFINE S == Range(s) \cup {x}
           t == Append(s, x)
           n == Len(s)
<1>1. s \in Seq(S) /\ x \in S
  <2>1. Range(s) \subseteq S /\ x \in S
    OBVIOUS
  <2>2. QED
    BY <2>1, SeqMade, ListParts DEF ListOf, Range
<1> HIDE DEF S
<1>2. /\ t \in Seq(S) /\ Len(t) = n + 1 /\ n \in Nat
      /\ \A i \in 1..n : t[i] = s[i]
      /\ t[n + 1] = x
  BY <1>1
<1>3. DOMAIN t = 1..(n + 1) /\ t = [i \in 1..(n + 1) |-> t[i]]
  BY <1>2, SeqParts, Zenon
<1>4. ListOf(t)
  BY <1>2, <1>3, ListMade
<1>5. QED
  BY <1>2, <1>3, <1>4, Zenon

TInv == TypeOK /\ ListOf(rows) /\ ListOf(given)

\* What every transaction writes to the page and to the handles has the shape of the definition.
LEMMA CommitShape ==
  ASSUME TInv, Commit
  PROVE  def' = def /\ Parsed' = Shape(Columns(def)) /\ Shape(cols') = Shape(Columns(def))
<1> DEFINE S == Shape(Columns(def))
<1>1. Parsed = S /\ def \in Schemas
  BY DEF TInv, TypeOK
<1>2. Laid(S, Offs(def)) /\ Shape(S) = S
  BY <1>1, ColumnsLaid, ShapeLaid, Zenon
<1>3. page' = WriteDef(S) /\ cols' = S /\ def' = def
  BY <1>1 DEF Commit
<1> HIDE DEF S
<1>4. Parsed' = ParseDef(WriteDef(S))
  BY <1>3 DEF Parsed
<1>5. QED
  BY <1>2, <1>3, <1>4, PageRoundTrip DEF S

LEMMA InitTyped == Init => TInv
<1> SUFFICES ASSUME Init PROVE TInv
  OBVIOUS
<1>1. def \in Schemas /\ cols = Columns(def) /\ page = WriteDef(cols)
  BY DEF Init
<1>2. Parsed = Shape(Columns(def))
  BY <1>1, ColumnsLaid, PageRoundTrip DEF Parsed
<1>3. rows = <<>> /\ given = <<>> /\ auto = 0 /\ lossy = {} /\ leaf = [x \in Indexes |-> {}]
  BY DEF Init, Indexes
<1>4. ListOf(<<>>) /\ Len(<<>>) = 0
  BY DEF ListOf
<1>5. QED
  BY <1>1, <1>2, <1>3, <1>4, BoundAssumption DEF TInv, TypeOK

LEMMA InsertTyped ==
  ASSUME TInv, NEW vals0 \in Inputs[def], Insert(vals0)
  PROVE  TInv'
<1> DEFINE n == Len(rows)
           hasAuto == \E i \in ColNums : AutoCol(i)
           vals == [i \in ColNums |-> IF AutoCol(i) THEN Number32(auto + 1) ELSE vals0[i]]
           row == BuildRow(Parsed, vals)
           new(x) == [key |-> IndexKey(x, vals), row |-> n + 1]
<1>1. /\ ListOf(rows) /\ ListOf(given) /\ DOMAIN given = DOMAIN rows /\ n \in Nat
      /\ DOMAIN rows = 1..n /\ Len(given) = n
  <2>1. ListOf(rows) /\ ListOf(given) /\ DOMAIN given = DOMAIN rows
    BY DEF TInv, TypeOK
  <2>2. Len(rows) \in Nat /\ DOMAIN rows = 1..Len(rows) /\ Len(given) \in Nat /\ DOMAIN given = 1..Len(given)
    BY <2>1, ListParts
  <2>3. Len(given) = Len(rows)
    BY <2>1, <2>2
  <2>4. QED
    BY <2>1, <2>2, <2>3
<1>2. /\ n + 1 <= MaxRows /\ rows' = Append(rows, row) /\ given' = Append(given, vals)
      /\ hasAuto => auto < MaxAuto
      /\ auto' = IF hasAuto THEN auto + 1 ELSE auto
      /\ leaf' = [x \in Indexes |-> leaf[x] \cup {new(x)}]
      /\ lossy' = lossy \cup {i \in ColNums : ~ IsExact(def.cols[i].type, vals[i])}
      /\ Commit
  BY DEF Insert, Note
<1> HIDE DEF row, vals, hasAuto
<1>3. def' = def /\ Parsed' = Shape(Columns(def)) /\ Shape(cols') = Shape(Columns(def))
  BY <1>2, CommitShape
<1>4. /\ ListOf(rows') /\ DOMAIN rows' = 1..(n + 1) /\ Len(rows') = n + 1
      /\ ListOf(given') /\ DOMAIN given' = 1..(n + 1)
  BY <1>1, <1>2, ListAppend
<1>5. auto' \in 0..MaxAuto
  BY <1>2, BoundAssumption DEF TInv, TypeOK
<1>6. lossy' \subseteq ColNums
  BY <1>2 DEF TInv, TypeOK
<1>7. ASSUME NEW x \in Indexes, NEW e \in leaf'[x] PROVE e.row \in 1..(n + 1)
  <2>1. leaf'[x] = leaf[x] \cup {new(x)}
    BY <1>2
  <2>2. CASE e \in leaf[x]
    BY <1>1, <2>2 DEF TInv, TypeOK
  <2>3. CASE e = new(x)
    BY <1>1, <2>3
  <2>4. QED
    BY <2>1, <2>2, <2>3
<1>8. def \in Schemas /\ ColNums' = ColNums /\ Indexes' = Indexes
  BY <1>3 DEF TInv, TypeOK, ColNums, Indexes
<1>9. QED
  BY <1>2, <1>3, <1>4, <1>5, <1>6, <1>7, <1>8 DEF TInv, TypeOK

LEMMA UpdateTyped ==
  ASSUME TInv, NEW R \in SUBSET Live, NEW set \in Sets[def], Update(R, set)
  PROVE  TInv'
<1> DEFINE n == Len(rows)
           C == DOMAIN set
           now(r) == [i \in ColNums |-> IF i \in C THEN set[i] ELSE Values(r)[i]]
           Old(x, r) == [key |-> IndexKey(x, Values(r)), row |-> r]
           New(x, r) == [key |-> IndexKey(x, now(r)), row |-> r]
           moved(x) == {r \in R : Old(x, r) # New(x, r)}
           row(r) == IF r \in R THEN BuildRow(Parsed, now(r)) ELSE rows[r]
           value(r) == IF r \in R THEN [i \in ColNums |-> IF i \in C THEN set[i] ELSE given[r][i]]
                       ELSE given[r]
<1>1. /\ n \in Nat /\ DOMAIN rows = 1..n /\ n <= MaxRows /\ R \subseteq 1..n
  <2>1. Len(rows) \in Nat /\ DOMAIN rows = 1..Len(rows)
    BY ListParts DEF TInv
  <2>2. QED
    BY <2>1 DEF TInv, TypeOK, Live
<1>2. /\ rows' = [r \in DOMAIN rows |-> row(r)] /\ given' = [r \in DOMAIN rows |-> value(r)]
      /\ leaf' = [x \in Indexes |-> (leaf[x] \ {Old(x, r) : r \in moved(x)})
                                      \cup {New(x, r) : r \in moved(x)}]
      /\ lossy' = lossy \cup {i \in C : ~ IsExact(def.cols[i].type, set[i])}
      /\ Commit /\ auto' = auto
  BY DEF Update, Note
<1>3. def' = def /\ Parsed' = Shape(Columns(def)) /\ Shape(cols') = Shape(Columns(def))
  BY <1>2, CommitShape
<1> HIDE DEF row, value
<1>4. /\ ListOf(rows') /\ DOMAIN rows' = 1..n /\ Len(rows') = n
      /\ ListOf(given') /\ DOMAIN given' = 1..n
  <2>1. rows' = [r \in 1..n |-> rows'[r]] /\ given' = [r \in 1..n |-> given'[r]]
    BY <1>1, <1>2
  <2>2. QED
    BY <1>1, <2>1, ListMade
<1>5. C \subseteq ColNums
  BY InputAssumption DEF TInv, TypeOK, ColNums
<1>6. lossy' \subseteq ColNums
  BY <1>2, <1>5 DEF TInv, TypeOK
<1>7. ASSUME NEW x \in Indexes, NEW e \in leaf'[x] PROVE e.row \in 1..n
  <2>1. e \in leaf[x] \/ \E r \in R : e = New(x, r)
    BY <1>2, Zenon
  <2>2. CASE e \in leaf[x]
    BY <1>1, <2>2 DEF TInv, TypeOK
  <2>3. CASE \E r \in R : e = New(x, r)
    <3>1. PICK r \in R : e = New(x, r)
      BY <2>3
    <3> HIDE DEF now
    <3>2. QED
      BY <1>1, <3>1
  <2>4. QED
    BY <2>1, <2>2, <2>3
<1>8. def \in Schemas /\ ColNums' = ColNums /\ Indexes' = Indexes /\ auto \in 0..MaxAuto
  BY <1>3 DEF TInv, TypeOK, ColNums, Indexes
<1>9. QED
  BY <1>1, <1>2, <1>3, <1>4, <1>6, <1>7, <1>8, Zenon DEF TInv, TypeOK

LEMMA DeleteTyped ==
  ASSUME TInv, NEW R \in SUBSET Live, Delete(R)
  PROVE  TInv'
<1> DEFINE n == Len(rows)
<1>1. n \in Nat /\ DOMAIN rows = 1..n /\ n <= MaxRows
  <2>1. Len(rows) \in Nat /\ DOMAIN rows = 1..Len(rows)
    BY ListParts DEF TInv
  <2>2. QED
    BY <2>1 DEF TInv, TypeOK
<1>2. /\ rows' = [r \in DOMAIN rows |-> IF r \in R THEN Gone ELSE rows[r]]
      /\ given' = [r \in DOMAIN rows |-> IF r \in R THEN Gone ELSE given[r]]
      /\ DOMAIN leaf' = Indexes /\ \A x \in Indexes : leaf'[x] \subseteq leaf[x]
      /\ Commit /\ auto' = auto /\ lossy' = lossy
  BY DEF Delete
<1>3. def' = def /\ Parsed' = Shape(Columns(def)) /\ Shape(cols') = Shape(Columns(def))
  BY <1>2, CommitShape
<1>4. /\ ListOf(rows') /\ DOMAIN rows' = 1..n /\ Len(rows') = n
      /\ ListOf(given') /\ DOMAIN given' = 1..n
  <2>1. rows' = [r \in 1..n |-> rows'[r]] /\ given' = [r \in 1..n |-> given'[r]]
    BY <1>1, <1>2
  <2>2. QED
    BY <1>1, <2>1, ListMade
<1>5. \A x \in Indexes : \A e \in leaf'[x] : e.row \in 1..n
  BY <1>1, <1>2 DEF TInv, TypeOK
<1>6. def \in Schemas /\ ColNums' = ColNums /\ Indexes' = Indexes /\ auto \in 0..MaxAuto /\ lossy \subseteq ColNums
  BY <1>3 DEF TInv, TypeOK, ColNums, Indexes
<1>7. QED
  BY <1>1, <1>2, <1>3, <1>4, <1>5, <1>6 DEF TInv, TypeOK

LEMMA StepTyped == TInv /\ [Next]_vars => TInv'
<1> SUFFICES ASSUME TInv, [Next]_vars PROVE TInv'
  OBVIOUS
<1>1. CASE \E vals \in Inputs[def] : Insert(vals)
  BY <1>1, InsertTyped
<1>2. CASE \E R \in SUBSET Live \ {{}}, set \in Sets[def] : Update(R, set)
  BY <1>2, UpdateTyped
<1>3. CASE \E R \in SUBSET Live \ {{}} : Delete(R)
  BY <1>3, DeleteTyped
<1>4. CASE Reopen
  <2>1. Parsed = Shape(Columns(def)) /\ def \in Schemas
    BY DEF TInv, TypeOK
  <2>2. Shape(Parsed) = Parsed
    BY <2>1, ColumnsLaid, ShapeLaid, Zenon
  <2>3. Parsed' = Parsed /\ cols' = Parsed /\ ColNums' = ColNums /\ Indexes' = Indexes
    BY <1>4 DEF Reopen, Parsed, ColNums, Indexes
  <2>4. QED
    BY <1>4, <2>1, <2>2, <2>3 DEF Reopen, TInv, TypeOK
<1>5. CASE UNCHANGED vars
  BY <1>5 DEF vars, TInv, TypeOK, Parsed, ColNums, Indexes
<1>6. QED
  BY <1>1, <1>2, <1>3, <1>4, <1>5, Zenon DEF Next

\* Through every transaction and reopening, the handle and the definition page show the columns
\* that the table was created with, but for which of them are nullable (database.go:570-705).
THEOREM TypeCorrect == Spec => []TypeOK
<1>1. TInv => TypeOK
  BY DEF TInv
<1>2. QED
  BY <1>1, InitTyped, StepTyped, PTL DEF Spec
-----------------------------------------------------------------------------
(* The order of rows *)

\* The columns ordered by hold numbers.
Numbers(row, order) == \A k \in DOMAIN order :
  LET c == Col(row, order[k].col) IN c.go \in Floats /\ c.s = <<c.s[1]>> /\ c.s[1] \in Int

\* What counts of a row at place k of an order, so that less comes first.
Rank(row, order, k) == IF order[k].desc THEN - Number(Col(row, order[k].col))
                       ELSE Number(Col(row, order[k].col))

Alike(a, b, order, k) == Rank(a, order, k) = Rank(b, order, k)
\* Row a comes after b: it is more in the first place where they differ.
After(a, b, order) == \E m \in DOMAIN order : /\ \A k \in DOMAIN order : k < m => Alike(a, b, order, k)
                                              /\ Rank(a, order, m) > Rank(b, order, m)

Orders == Seq([col : Nat, desc : BOOLEAN])

LEMMA OrderParts ==
  ASSUME NEW order \in Orders
  PROVE  /\ Len(order) \in Nat /\ DOMAIN order = 1..Len(order) /\ DOMAIN order \subseteq Nat
         /\ \A k \in DOMAIN order : order[k].desc \in BOOLEAN
<1> DEFINE O == [col : Nat, desc : BOOLEAN]
<1>1. order \in Seq(O) /\ \A o \in O : o.desc \in BOOLEAN
  BY DEF Orders
<1> HIDE DEF O
<1>2. Len(order) \in Nat /\ DOMAIN order = 1..Len(order) /\ \A k \in 1..Len(order) : order[k] \in O
  BY <1>1, SeqParts
<1>3. QED
  BY <1>1, <1>2

LEMMA RankFacts ==
  ASSUME NEW order \in Orders, NEW a, NEW b, Numbers(a, order), Numbers(b, order),
         NEW k \in DOMAIN order
  PROVE  LET x == Col(a, order[k].col)  y == Col(b, order[k].col)
         IN /\ Rank(a, order, k) \in Int /\ Rank(b, order, k) \in Int
            /\ CompareEqual(x, y) <=> Alike(a, b, order, k)
            /\ x.s = y.s <=> Alike(a, b, order, k)
            /\ CompareLess(x, y) <=> Number(x) < Number(y)
            /\ order[k].desc => (Number(x) < Number(y) <=> Rank(a, order, k) > Rank(b, order, k))
            /\ ~ order[k].desc => (Number(x) < Number(y) <=> Rank(a, order, k) < Rank(b, order, k))
<1> DEFINE x == Col(a, order[k].col)  y == Col(b, order[k].col)
<1>1. /\ x.go \in Floats /\ x.s = <<x.s[1]>> /\ x.s[1] \in Int
      /\ y.go \in Floats /\ y.s = <<y.s[1]>> /\ y.s[1] \in Int
  BY Zenon DEF Numbers
<1>2. order[k].desc \in BOOLEAN
  BY OrderParts
<1>3. /\ Rank(a, order, k) = IF order[k].desc THEN - x.s[1] ELSE x.s[1]
      /\ Rank(b, order, k) = IF order[k].desc THEN - y.s[1] ELSE y.s[1]
  BY DEF Rank, Number
<1> HIDE DEF x, y
<1>4. x # Nil /\ y # Nil /\ {x.go, y.go} \subseteq Printable
  BY <1>1 DEF Nil, Floats, Printable
<1>5. CompareEqual(x, y) <=> x.s = y.s
  BY <1>4 DEF CompareEqual
<1>6. x.s = y.s <=> x.s[1] = y.s[1]
  BY <1>1
<1>7. ToFloat(x) = x.s[1] /\ ToFloat(y) = y.s[1]
  BY <1>1 DEF ToFloat, Number
<1>8. CompareLess(x, y) <=> x.s[1] < y.s[1]
  BY <1>7 DEF CompareLess
<1>9. Number(x) = x.s[1] /\ Number(y) = y.s[1]
  BY DEF Number
<1>10. (x.s[1] = y.s[1] <=> Alike(a, b, order, k)) /\ Rank(a, order, k) \in Int /\ Rank(b, order, k) \in Int
  BY <1>1, <1>2, <1>3 DEF Alike
<1>11. /\ order[k].desc => (x.s[1] < y.s[1] <=> Rank(a, order, k) > Rank(b, order, k))
       /\ ~ order[k].desc => (x.s[1] < y.s[1] <=> Rank(a, order, k) < Rank(b, order, k))
  BY <1>1, <1>2, <1>3
<1>12. QED
  BY <1>5, <1>6, <1>8, <1>9, <1>10, <1>11 DEF x, y

\* The first place where two rows differ.
LEMMA FirstDiffer ==
  ASSUME NEW order \in Orders, NEW a, NEW b
  PROVE  LET differ == {k \in DOMAIN order : ~ Alike(a, b, order, k)}
         IN differ # {} => /\ Min(differ) \in differ
                           /\ \A k \in DOMAIN order : k < Min(differ) => Alike(a, b, order, k)
<1> DEFINE differ == {k \in DOMAIN order : ~ Alike(a, b, order, k)}
<1>1. SUFFICES ASSUME differ # {}
               PROVE  /\ Min(differ) \in differ
                      /\ \A k \in DOMAIN order : k < Min(differ) => Alike(a, b, order, k)
  OBVIOUS
<1>2. differ \subseteq Nat
  BY OrderParts
<1>3. \E n \in differ : \A m \in differ : n <= m
  <2> HIDE DEF differ
  <2>1. QED
    BY <1>1, <1>2, ByCondition!LeastOfSet, Zenon
<1>4. Min(differ) \in differ /\ \A m \in differ : Min(differ) <= m
  <2> HIDE DEF differ
  <2>1. QED
    BY <1>3 DEF Min
<1>5. ASSUME NEW k \in DOMAIN order, k < Min(differ) PROVE Alike(a, b, order, k)
  <2>1. k \in Nat /\ Min(differ) \in Nat /\ ~ (Min(differ) <= k)
    BY <1>2, <1>4, <1>5, OrderParts
  <2>2. k \notin differ
    BY <1>4, <2>1
  <2>3. QED
    BY <2>2
<1>6. QED
  BY <1>4, <1>5

LEMMA SwapIsAfter ==
  ASSUME NEW order \in Orders, NEW a, NEW b, Numbers(a, order), Numbers(b, order)
  PROVE  /\ ShouldSwap(a, b, order) <=> After(a, b, order)
         /\ InOrder(a, b, order) <=> ~ After(a, b, order)
<1> DEFINE D == {k \in DOMAIN order : ~ Alike(a, b, order, k)}
           m == Min(D)
           o == order[m]
           x == Col(a, o.col)  y == Col(b, o.col)
<1>1. {k \in DOMAIN order : ~ CompareEqual(Col(a, order[k].col), Col(b, order[k].col))} = D
  BY RankFacts
<1>2. {k \in DOMAIN order : Col(a, order[k].col).s # Col(b, order[k].col).s} = D
  BY RankFacts
<1>3. ShouldSwap(a, b, order) <=> D # {} /\ (CompareLess(x, y) = o.desc)
  BY <1>1, Zenon DEF ShouldSwap
<1>4. InOrder(a, b, order) <=> D = {} \/ ((Number(x) < Number(y)) = ~ o.desc)
  BY <1>2, Zenon DEF InOrder
<1>5. CASE D = {}
  <2>1. \A k \in DOMAIN order : Alike(a, b, order, k)
    BY <1>5
  <2>2. \A k \in DOMAIN order : Rank(a, order, k) \in Int /\ Rank(b, order, k) \in Int
    BY RankFacts
  <2>3. ~ After(a, b, order)
    BY <2>1, <2>2 DEF After, Alike
  <2>4. QED
    BY <1>3, <1>4, <1>5, <2>3
<1>6. CASE D # {}
  <2>1. m \in D /\ m \in DOMAIN order /\ \A k \in DOMAIN order : k < m => Alike(a, b, order, k)
    BY <1>6, FirstDiffer, Zenon
  <2>2. /\ Rank(a, order, m) \in Int /\ Rank(b, order, m) \in Int /\ ~ Alike(a, b, order, m)
        /\ CompareLess(x, y) <=> Number(x) < Number(y)
        /\ o.desc => (Number(x) < Number(y) <=> Rank(a, order, m) > Rank(b, order, m))
        /\ ~ o.desc => (Number(x) < Number(y) <=> Rank(a, order, m) < Rank(b, order, m))
    BY <2>1, RankFacts
  <2>3. o.desc \in BOOLEAN
    BY <2>1, OrderParts
  <2>4. After(a, b, order) <=> Rank(a, order, m) > Rank(b, order, m)
    <3>1. Rank(a, order, m) > Rank(b, order, m) => After(a, b, order)
      BY <2>1 DEF After
    <3>2. ASSUME After(a, b, order) PROVE Rank(a, order, m) > Rank(b, order, m)
      <4>1. PICK l \in DOMAIN order : /\ \A k \in DOMAIN order : k < l => Alike(a, b, order, k)
                                      /\ Rank(a, order, l) > Rank(b, order, l)
        BY <3>2 DEF After
      <4>2. Rank(a, order, l) \in Int /\ Rank(b, order, l) \in Int
        BY RankFacts
      <4>3. ~ Alike(a, b, order, l)
        BY <4>1, <4>2 DEF Alike
      <4>4. l \in Nat /\ m \in Nat /\ ~ (l < m) /\ ~ (m < l)
        BY <2>1, <2>2, <4>1, <4>3, OrderParts
      <4>5. l = m
        BY <4>4
      <4>6. QED
        BY <4>1, <4>5
    <3>3. QED
      BY <3>1, <3>2
  <2> HIDE DEF D, m, o, x, y
  <2>5. Rank(a, order, m) > Rank(b, order, m) <=> ~ (Rank(a, order, m) < Rank(b, order, m))
    <3>1. Rank(a, order, m) # Rank(b, order, m)
      BY <2>2 DEF Alike
    <3>2. Rank(a, order, m) \in Int /\ Rank(b, order, m) \in Int
      BY <2>2
    <3>3. \A p \in Int, q \in Int : p # q => (p > q <=> ~ (p < q))
      OBVIOUS
    <3>4. QED
      BY <3>1, <3>2, <3>3
  <2>6. (CompareLess(x, y) = o.desc) <=> Rank(a, order, m) > Rank(b, order, m)
    <3>1. CompareLess(x, y) \in BOOLEAN
      BY DEF CompareLess
    <3>2. CASE o.desc
      BY <2>2, <3>1, <3>2, Zenon
    <3>3. CASE ~ o.desc
      BY <2>2, <2>3, <2>5, <3>1, <3>3
    <3>4. QED
      BY <3>2, <3>3
  <2>7. ((Number(x) < Number(y)) = ~ o.desc) <=> ~ (Rank(a, order, m) > Rank(b, order, m))
    BY <2>2, <2>3, <2>5
  <2>8. QED
    BY <1>3, <1>4, <1>6, <2>4, <2>6, <2>7
<1>7. QED
  BY <1>5, <1>6

\* Not to come after is an order of the rows that hold numbers.
LEMMA AfterOrders ==
  ASSUME NEW order \in Orders, NEW a, NEW b, NEW c,
         Numbers(a, order), Numbers(b, order), Numbers(c, order)
  PROVE  /\ After(a, b, order) => ~ After(b, a, order)
         /\ After(a, c, order) => After(a, b, order) \/ After(b, c, order)
<1>1. \A k \in DOMAIN order : /\ k \in Nat /\ Rank(a, order, k) \in Int
                              /\ Rank(b, order, k) \in Int /\ Rank(c, order, k) \in Int
  BY RankFacts, OrderParts
<1>2. ASSUME After(a, b, order), After(b, a, order) PROVE FALSE
  <2>1. PICK l \in DOMAIN order : /\ \A k \in DOMAIN order : k < l => Alike(a, b, order, k)
                                  /\ Rank(a, order, l) > Rank(b, order, l)
    BY <1>2 DEF After
  <2>2. PICK m \in DOMAIN order : /\ \A k \in DOMAIN order : k < m => Alike(b, a, order, k)
                                  /\ Rank(b, order, m) > Rank(a, order, m)
    BY <1>2 DEF After
  <2>3. ~ (l < m) /\ ~ (m < l)
    BY <1>1, <2>1, <2>2 DEF Alike
  <2>4. l = m
    BY <1>1, <2>3
  <2>5. QED
    BY <1>1, <2>1, <2>2, <2>4
<1>3. ASSUME After(a, c, order) PROVE After(a, b, order) \/ After(b, c, order)
  <2>1. PICK m \in DOMAIN order : /\ \A k \in DOMAIN order : k < m => Alike(a, c, order, k)
                                  /\ Rank(a, order, m) > Rank(c, order, m)
    BY <1>3 DEF After
  <2> DEFINE D == {k \in DOMAIN order : ~ Alike(a, b, order, k)}
             l == Min(D)
  <2>2. CASE \A k \in DOMAIN order : k <= m => Alike(a, b, order, k)
    <3>1. \A k \in DOMAIN order : k < m => Alike(b, c, order, k)
      BY <1>1, <2>1, <2>2 DEF Alike
    <3>2. Rank(b, order, m) > Rank(c, order, m)
      BY <1>1, <2>1, <2>2 DEF Alike
    <3>3. QED
      BY <3>1, <3>2 DEF After
  <2>3. CASE \E k \in DOMAIN order : k <= m /\ ~ Alike(a, b, order, k)
    <3>1. PICK k0 \in DOMAIN order : k0 <= m /\ ~ Alike(a, b, order, k0)
      BY <2>3
    <3>2. l \in DOMAIN order /\ ~ Alike(a, b, order, l)
          /\ \A k \in DOMAIN order : k < l => Alike(a, b, order, k)
      BY <3>1, FirstDiffer, Zenon
    <3> HIDE DEF l
    <3>3. l <= m
      BY <1>1, <3>1, <3>2
    <3>4. CASE Rank(a, order, l) > Rank(b, order, l)
      BY <3>2, <3>4 DEF After
    <3>5. CASE ~ (Rank(a, order, l) > Rank(b, order, l))
      <4>1. Rank(b, order, l) > Rank(a, order, l)
        BY <1>1, <3>2, <3>5 DEF Alike
      <4>2. Rank(b, order, l) > Rank(c, order, l)
        <5>1. l < m \/ l = m
          BY <1>1, <3>2, <3>3
        <5>2. QED
          BY <1>1, <2>1, <3>2, <4>1, <5>1 DEF Alike
      <4>3. \A k \in DOMAIN order : k < l => Alike(b, c, order, k)
        BY <1>1, <2>1, <3>2, <3>3 DEF Alike
      <4>4. QED
        BY <3>2, <4>2, <4>3 DEF After
    <3>6. QED
      BY <3>4, <3>5
  <2>4. QED
    BY <2>2, <2>3
<1>4. QED
  BY <1>2, <1>3

-----------------------------------------------------------------------------
(* Sorting *)

\* t has the n rows of s, each as often as s does.
Rearranged(s, t, n) == /\ t = [i \in 1..n |-> t[i]]
                       /\ \E p \in Bijection(1..n, 1..n) : \A i \in 1..n : t[i] = s[p[i]]

\* The swaps of one round, and the rounds of a sort, one after the other.
Swaps(h, order, s, n, t) == /\ h[0] = s /\ h[n] = t
                            /\ \A k \in 1..n : h[k] = SwapAt(order, h[k - 1], k)
Rounds(h, order, s, n, t) == /\ h[0] = s /\ h[n] = t
                             /\ \A k \in 1..n : h[k] = Round(order, h[k - 1], k)

SwapsUpTo(order, s, n) == FoldLeft(LAMBDA t, j : SwapAt(order, t, j), s, [j \in 1..n |-> j])

LEMMA SwapSteps ==
  ASSUME NEW order, NEW s, NEW n \in Nat
  PROVE  \E h : Swaps(h, order, s, n, SwapsUpTo(order, s, n))
<1> DEFINE js == [j \in 1..n |-> j]
<1>1. SwapsUpTo(order, s, n) = BySwap!FoldTable(order, s, js)[DOMAIN js]
  BY DEF SwapsUpTo, FoldLeft, MapThenFoldSet, BySwap!FoldTable, BySwap!IsTable, BySwap!FoldBy,
         Max, BySwap!Max
<1>2. DOMAIN js = 1..n /\ \A j \in 1..n : js[j] = j
  OBVIOUS
<1> HIDE DEF js
<1>3. PICK h : BySwap!Steps(order, h, s, js, n) /\ BySwap!FoldTable(order, s, js)[DOMAIN js] = h[n]
  BY <1>2, BySwap!FoldSteps
<1>4. h[0] = s /\ \A k \in 1..n : h[k] = SwapAt(order, h[k - 1], k)
  BY <1>2, <1>3 DEF BySwap!Steps
<1>5. QED
  BY <1>1, <1>3, <1>4 DEF Swaps

LEMMA RoundSteps ==
  ASSUME NEW order, NEW s, NEW n \in Nat, n = (IF Len(s) = 0 THEN 0 ELSE Len(s) - 1), Len(s) \in Nat
  PROVE  \E h : Rounds(h, order, s, n, Sorted(s, order))
<1> DEFINE js == [j \in 1..(Len(s) - 1) |-> j]
<1>1. Sorted(s, order) = ByRound!FoldTable(order, s, js)[DOMAIN js]
  BY DEF Sorted, FoldLeft, MapThenFoldSet, ByRound!FoldTable, ByRound!IsTable, ByRound!FoldBy,
         Max, ByRound!Max
<1>2. DOMAIN js = 1..n /\ \A j \in 1..n : js[j] = j
  OBVIOUS
<1> HIDE DEF js
<1>3. PICK h : ByRound!Steps(order, h, s, js, n) /\ ByRound!FoldTable(order, s, js)[DOMAIN js] = h[n]
  BY <1>2, ByRound!FoldSteps
<1>4. h[0] = s /\ \A k \in 1..n : h[k] = Round(order, h[k - 1], k)
  BY <1>2, <1>3 DEF ByRound!Steps
<1>5. QED
  BY <1>1, <1>3, <1>4 DEF Rounds

\* t has n elements.
Sized(t, n) == t = [i \in 1..n |-> t[i]]

LEMMA SwapMoves ==
  ASSUME NEW order, NEW n \in Nat, NEW t, Sized(t, n), NEW j \in 1..n, j + 1 \in 1..n
  PROVE  LET u == SwapAt(order, t, j)
         IN /\ Sized(u, n)
            /\ \A i \in 1..n : i # j /\ i # j + 1 => u[i] = t[i]
            /\ ShouldSwap(t[j], t[j + 1], order) => u[j] = t[j + 1] /\ u[j + 1] = t[j]
            /\ ~ ShouldSwap(t[j], t[j + 1], order) => u = t
<1>0. t = [i \in 1..n |-> t[i]]
  BY DEF Sized
<1>1. CASE ~ ShouldSwap(t[j], t[j + 1], order)
  BY <1>0, <1>1 DEF SwapAt, Sized
<1>2. CASE ShouldSwap(t[j], t[j + 1], order)
  <2> DEFINE u == [t EXCEPT ![j] = t[j + 1], ![j + 1] = t[j]]
  <2>1. SwapAt(order, t, j) = u
    BY <1>2 DEF SwapAt
  <2>2. /\ u = [i \in 1..n |-> u[i]]
        /\ \A i \in 1..n : i # j /\ i # j + 1 => u[i] = t[i]
        /\ u[j] = t[j + 1] /\ u[j + 1] = t[j]
    BY <1>0, Zenon
  <2>3. QED
    BY <1>2, <2>1, <2>2, Zenon DEF Sized
<1>3. QED
  BY <1>1, <1>2

\* Swapping two neighbours loses and repeats no row.
LEMMA SwapRearranges ==
  ASSUME NEW order, NEW n \in Nat, NEW s, NEW t, Rearranged(s, t, n), NEW j \in 1..n, j + 1 \in 1..n
  PROVE  Rearranged(s, SwapAt(order, t, j), n)
<1> DEFINE u == SwapAt(order, t, j)
<1>1. Sized(t, n)
  BY DEF Rearranged, Sized
<1>2. /\ Sized(u, n)
      /\ \A i \in 1..n : i # j /\ i # j + 1 => u[i] = t[i]
      /\ u = t \/ (u[j] = t[j + 1] /\ u[j + 1] = t[j])
  BY <1>1, SwapMoves
<1> HIDE DEF u
<1>3. PICK p \in Bijection(1..n, 1..n) : \A i \in 1..n : t[i] = s[p[i]]
  BY DEF Rearranged
<1>4. CASE u = t
  BY <1>4 DEF u
<1>5. CASE u[j] = t[j + 1] /\ u[j + 1] = t[j]
  <2> DEFINE q == [i \in 1..n |-> p[IF i = j THEN j + 1 ELSE IF i = j + 1 THEN j ELSE i]]
  <2>1. /\ p \in [1..n -> 1..n] /\ (\A a, b \in 1..n : p[a] = p[b] => a = b)
        /\ \A x \in 1..n : \E i \in 1..n : p[i] = x
    BY <1>3, Zenon DEF Bijection, Injection, Surjection, IsInjective
  <2>2. q \in [1..n -> 1..n] /\ \A a, b \in 1..n : q[a] = q[b] => a = b
    BY <2>1, Zenon
  <2>3. ASSUME NEW x \in 1..n PROVE \E i \in 1..n : q[i] = x
    <3>1. PICK i \in 1..n : p[i] = x
      BY <2>1
    <3>2. q[IF i = j THEN j + 1 ELSE IF i = j + 1 THEN j ELSE i] = x
      BY <3>1
    <3>3. (IF i = j THEN j + 1 ELSE IF i = j + 1 THEN j ELSE i) \in 1..n
      OBVIOUS
    <3>4. QED
      BY <3>2, <3>3
  <2>4. \A i \in 1..n : u[i] = s[q[i]]
    BY <1>2, <1>3, <1>5, <2>1, Zenon
  <2> HIDE DEF q
  <2>5. q \in Bijection(1..n, 1..n)
    BY <2>2, <2>3, Zenon DEF Bijection, Injection, Surjection, IsInjective
  <2>6. QED
    BY <1>2, <2>4, <2>5 DEF Rearranged, Sized, u
<1>6. QED
  BY <1>2, <1>4, <1>5

LEMMA RearrangedSelf ==
  ASSUME NEW n \in Nat, NEW s, s = [i \in 1..n |-> s[i]]
  PROVE  Rearranged(s, s, n)
<1> DEFINE p == [i \in 1..n |-> i]
<1>1. p \in Bijection(1..n, 1..n)
  BY DEF Bijection, Injection, Surjection, IsInjective
<1>2. \A i \in 1..n : s[i] = s[p[i]]
  OBVIOUS
<1> HIDE DEF p
<1>3. QED
  BY <1>1, <1>2 DEF Rearranged

LEMMA RearrangedLen ==
  ASSUME NEW n \in Nat, NEW s, NEW t, Rearranged(s, t, n)
  PROVE  Len(t) = n
<1> DEFINE S == {t[i] : i \in 1..n}
<1>1. t = [i \in 1..n |-> t[i]] /\ \A i \in 1..n : t[i] \in S
  BY DEF Rearranged
<1> HIDE DEF S
<1>2. QED
  BY <1>1, SeqMade

LEMMA RoundRearranges ==
  ASSUME NEW order, NEW n \in Nat, NEW s, NEW t, Rearranged(s, t, n), NEW i \in 1..n
  PROVE  Rearranged(s, Round(order, t, i), n)
<1>1. Len(t) = n /\ n - i \in Nat
  BY RearrangedLen
<1>2. PICK h : Swaps(h, order, t, n - i, Round(order, t, i))
  <2>1. Round(order, t, i) = SwapsUpTo(order, t, n - i)
    BY <1>1 DEF Round, SwapsUpTo
  <2>2. QED
    BY <1>1, <2>1, SwapSteps
<1> DEFINE P == {k \in Nat : k <= n - i => Rearranged(s, h[k], n)}
<1>3. 0 \in P
  BY <1>2 DEF Swaps
<1>4. ASSUME NEW k \in Nat, k \in P PROVE k + 1 \in P
  <2>1. SUFFICES ASSUME k + 1 <= n - i PROVE Rearranged(s, h[k + 1], n)
    OBVIOUS
  <2>2. Rearranged(s, h[k], n) /\ k + 1 \in 1..(n - i) /\ k + 1 \in 1..n /\ (k + 1) + 1 \in 1..n
    BY <1>4, <2>1
  <2>3. h[k + 1] = SwapAt(order, h[(k + 1) - 1], k + 1) /\ (k + 1) - 1 = k
    BY <1>2, <2>2 DEF Swaps
  <2>4. QED
    BY <2>2, <2>3, SwapRearranges
<1>5. n - i \in P
  <2> HIDE DEF P
  <2>1. QED
    BY <1>1, <1>3, <1>4, ByCondition!Inductive
<1>6. QED
  BY <1>1, <1>2, <1>5 DEF Swaps

\* No row beyond place m comes before one at a lower place.
Settled(order, t, n, m) == \A a, b \in 1..n : a < b /\ b > m => ~ After(t[a], t[b], order)
\* No row up to place k comes after the next.
Bubbled(order, t, k) == \A a \in 1..k : ~ After(t[a], t[k + 1], order)

LEMMA RearrangedNumbers ==
  ASSUME NEW order, NEW n \in Nat, NEW s, NEW t, Rearranged(s, t, n),
         \A i \in 1..n : Numbers(s[i], order)
  PROVE  \A i \in 1..n : Numbers(t[i], order)
<1>1. PICK p \in Bijection(1..n, 1..n) : \A i \in 1..n : t[i] = s[p[i]]
  BY DEF Rearranged
<1>2. \A i \in 1..n : p[i] \in 1..n
  BY <1>1 DEF Bijection, Injection
<1>3. QED
  BY <1>1, <1>2

LEMMA SwapBubbles ==
  ASSUME NEW order \in Orders, NEW n \in Nat, NEW t, Sized(t, n),
         \A i \in 1..n : Numbers(t[i], order),
         NEW m \in Nat, NEW j \in 1..n, j < m, m <= n,
         Settled(order, t, n, m), Bubbled(order, t, j - 1)
  PROVE  LET u == SwapAt(order, t, j) IN Settled(order, u, n, m) /\ Bubbled(order, u, j)
<1> DEFINE u == SwapAt(order, t, j)
<1>1. j + 1 \in 1..n
  OBVIOUS
<1>2. /\ Sized(u, n)
      /\ \A i \in 1..n : i # j /\ i # j + 1 => u[i] = t[i]
      /\ ShouldSwap(t[j], t[j + 1], order) => u[j] = t[j + 1] /\ u[j + 1] = t[j]
      /\ ~ ShouldSwap(t[j], t[j + 1], order) => u = t
  BY <1>1, SwapMoves, Zenon
<1>3. ShouldSwap(t[j], t[j + 1], order) <=> After(t[j], t[j + 1], order)
  BY <1>1, SwapIsAfter
<1> HIDE DEF u
<1>4. Settled(order, u, n, m)
  <2>1. ASSUME NEW a \in 1..n, NEW b \in 1..n, a < b, b > m PROVE ~ After(u[a], u[b], order)
    <3>1. u[b] = t[b]
      BY <1>2, <2>1
    <3>2. \E c \in 1..n : c < b /\ u[a] = t[c]
      <4>1. CASE u = t
        BY <2>1, <4>1
      <4>2. CASE u[j] = t[j + 1] /\ u[j + 1] = t[j]
        <5>1. CASE a = j
          BY <1>1, <2>1, <4>2, <5>1
        <5>2. CASE a = j + 1
          BY <1>1, <2>1, <4>2, <5>2
        <5>3. CASE a # j /\ a # j + 1
          BY <1>2, <2>1, <5>3
        <5>4. QED
          BY <5>1, <5>2, <5>3
      <4>3. QED
        BY <1>2, <4>1, <4>2
    <3>3. QED
      BY <2>1, <3>1, <3>2 DEF Settled
  <2>2. QED
    BY <2>1 DEF Settled
<1>5. Bubbled(order, u, j)
  <2>1. ASSUME NEW a \in 1..j PROVE ~ After(u[a], u[j + 1], order)
    <3>1. a \in 1..n /\ (a = j \/ (a \in 1..(j - 1) /\ u[a] = t[a] /\ ~ After(t[a], t[j], order)))
      <4>1. a \in 1..n /\ (a = j \/ a \in 1..(j - 1))
        OBVIOUS
      <4>2. a \in 1..(j - 1) => ~ After(t[a], t[(j - 1) + 1], order)
        BY DEF Bubbled
      <4>3. (j - 1) + 1 = j
        OBVIOUS
      <4>4. a \in 1..(j - 1) => u[a] = t[a]
        BY <1>2, <4>1
      <4>5. QED
        BY <4>1, <4>2, <4>3, <4>4
    <3>2. CASE After(t[j], t[j + 1], order)
      <4>1. u[j] = t[j + 1] /\ u[j + 1] = t[j]
        BY <1>2, <1>3, <3>2
      <4>2. ~ After(t[j + 1], t[j], order)
        BY <1>1, <3>2, AfterOrders
      <4>3. QED
        BY <3>1, <4>1, <4>2
    <3>3. CASE ~ After(t[j], t[j + 1], order)
      <4>1. u = t
        BY <1>2, <1>3, <3>3
      <4>2. Numbers(t[a], order) /\ Numbers(t[j], order) /\ Numbers(t[j + 1], order)
        BY <1>1, <3>1
      <4>3. After(t[a], t[j + 1], order) => After(t[a], t[j], order) \/ After(t[j], t[j + 1], order)
        BY <4>2, AfterOrders
      <4>4. QED
        BY <3>1, <3>3, <4>1, <4>3
    <3>4. QED
      BY <3>2, <3>3
  <2>2. QED
    BY <2>1 DEF Bubbled
<1>6. QED
  BY <1>4, <1>5 DEF u

LEMMA RoundSettles ==
  ASSUME NEW order \in Orders, NEW n \in Nat, NEW s, NEW t, Rearranged(s, t, n),
         \A i \in 1..n : Numbers(s[i], order),
         NEW i \in 1..n, Settled(order, t, n, (n - i) + 1)
  PROVE  Settled(order, Round(order, t, i), n, n - i)
<1> DEFINE m == (n - i) + 1
<1>1. Len(t) = n /\ n - i \in Nat /\ m \in 1..n
  BY RearrangedLen
<1>2. PICK h : Swaps(h, order, t, n - i, Round(order, t, i))
  <2>1. Round(order, t, i) = SwapsUpTo(order, t, n - i)
    BY <1>1 DEF Round, SwapsUpTo
  <2>2. QED
    BY <1>1, <2>1, SwapSteps
<1> DEFINE Good(u, k) == Rearranged(s, u, n) /\ Settled(order, u, n, m) /\ Bubbled(order, u, k)
           P == {k \in Nat : k <= n - i => Good(h[k], k)}
<1>3. 0 \in P
  <2>1. Bubbled(order, t, 0)
    BY DEF Bubbled
  <2>2. QED
    BY <1>2, <2>1 DEF Swaps
<1>4. ASSUME NEW k \in Nat, k \in P PROVE k + 1 \in P
  <2>1. SUFFICES ASSUME k + 1 <= n - i PROVE Good(h[k + 1], k + 1)
    OBVIOUS
  <2>2. /\ Good(h[k], k) /\ k + 1 \in 1..(n - i) /\ k + 1 \in 1..n /\ (k + 1) + 1 \in 1..n
        /\ k + 1 < m /\ m <= n /\ m \in Nat
    BY <1>1, <1>4, <2>1
  <2>3. h[k + 1] = SwapAt(order, h[(k + 1) - 1], k + 1) /\ (k + 1) - 1 = k
    BY <1>2, <2>2 DEF Swaps
  <2>4. Rearranged(s, h[k + 1], n)
    BY <2>2, <2>3, SwapRearranges
  <2>5. Sized(h[k], n) /\ \A x \in 1..n : Numbers(h[k][x], order)
    <3>1. Sized(h[k], n)
      BY <2>2 DEF Rearranged, Sized
    <3>2. QED
      BY <2>2, <3>1, RearrangedNumbers, Zenon
  <2>6. Settled(order, h[k], n, m) /\ Bubbled(order, h[k], (k + 1) - 1)
    BY <2>2, <2>3
  <2> HIDE DEF m
  <2>7. Settled(order, SwapAt(order, h[k], k + 1), n, m) /\ Bubbled(order, SwapAt(order, h[k], k + 1), k + 1)
    BY <2>2, <2>5, <2>6, SwapBubbles, Zenon
  <2>8. QED
    BY <2>3, <2>4, <2>7
<1>5. n - i \in P
  <2> HIDE DEF P
  <2>1. QED
    BY <1>1, <1>3, <1>4, ByCondition!Inductive
<1> DEFINE u == Round(order, t, i)
<1>6. Settled(order, u, n, m) /\ Bubbled(order, u, n - i)
  BY <1>1, <1>2, <1>5 DEF Swaps
<1> HIDE DEF u
<1>7. ASSUME NEW a \in 1..n, NEW b \in 1..n, a < b, b > n - i PROVE ~ After(u[a], u[b], order)
  <2>1. CASE b > m
    BY <1>6, <1>7, <2>1 DEF Settled
  <2>2. CASE ~ (b > m)
    <3>1. b = m /\ a \in 1..(n - i)
      BY <1>7, <2>2
    <3>2. ~ After(u[a], u[(n - i) + 1], order)
      BY <1>6, <3>1 DEF Bubbled
    <3>3. QED
      BY <3>1, <3>2
  <2>3. QED
    BY <2>1, <2>2
<1>8. Settled(order, u, n, n - i)
  BY <1>7 DEF Settled
<1>9. QED
  BY <1>8 DEF u

\* A sort has the rows it was given, each as often.
LEMMA SortRearranges ==
  ASSUME NEW order, NEW n \in Nat, NEW s, s = [i \in 1..n |-> s[i]]
  PROVE  Rearranged(s, Sorted(s, order), n)
<1> DEFINE r == IF n = 0 THEN 0 ELSE n - 1
<1>1. Rearranged(s, s, n)
  BY RearrangedSelf
<1>2. Len(s) = n /\ r \in Nat
  BY <1>1, RearrangedLen
<1>3. PICK h : Rounds(h, order, s, r, Sorted(s, order))
  BY <1>2, RoundSteps, Zenon
<1> DEFINE P == {k \in Nat : k <= r => Rearranged(s, h[k], n)}
<1>4. 0 \in P
  BY <1>1, <1>3 DEF Rounds
<1>5. ASSUME NEW k \in Nat, k \in P PROVE k + 1 \in P
  <2>1. SUFFICES ASSUME k + 1 <= r PROVE Rearranged(s, h[k + 1], n)
    OBVIOUS
  <2>2. Rearranged(s, h[k], n) /\ k + 1 \in 1..r /\ k + 1 \in 1..n
    BY <1>5, <2>1
  <2>3. h[k + 1] = Round(order, h[(k + 1) - 1], k + 1) /\ (k + 1) - 1 = k
    BY <1>3, <2>2 DEF Rounds
  <2>4. QED
    BY <2>2, <2>3, RoundRearranges
<1>6. r \in P
  <2> HIDE DEF P, r
  <2>1. QED
    BY <1>2, <1>4, <1>5, ByCondition!Inductive
<1>7. QED
  BY <1>2, <1>3, <1>6 DEF Rounds

\* Of rows that hold numbers in the columns to order by, none comes after a later one.
LEMMA SortSettles ==
  ASSUME NEW order \in Orders, NEW n \in Nat, NEW s, s = [i \in 1..n |-> s[i]],
         \A i \in 1..n : Numbers(s[i], order)
  PROVE  \A i, j \in 1..n : i < j => InOrder(Sorted(s, order)[i], Sorted(s, order)[j], order)
<1> DEFINE r == IF n = 0 THEN 0 ELSE n - 1
<1>1. Rearranged(s, s, n)
  BY RearrangedSelf
<1>2. Len(s) = n /\ r \in Nat
  BY <1>1, RearrangedLen
<1>3. PICK h : Rounds(h, order, s, r, Sorted(s, order))
  BY <1>2, RoundSteps, Zenon
<1> DEFINE P == {k \in Nat : k <= r => Rearranged(s, h[k], n) /\ Settled(order, h[k], n, n - k)}
<1>4. 0 \in P
  <2>1. Settled(order, s, n, n - 0)
    BY DEF Settled
  <2>2. QED
    BY <1>1, <1>3, <2>1 DEF Rounds
<1>5. ASSUME NEW k \in Nat, k \in P PROVE k + 1 \in P
  <2>1. SUFFICES ASSUME k + 1 <= r
                 PROVE Rearranged(s, h[k + 1], n) /\ Settled(order, h[k + 1], n, n - (k + 1))
    OBVIOUS
  <2>2. /\ Rearranged(s, h[k], n) /\ Settled(order, h[k], n, n - k) /\ k + 1 \in 1..r /\ k + 1 \in 1..n
        /\ n - k = (n - (k + 1)) + 1
    BY <1>5, <2>1
  <2> HIDE DEF P, r
  <2>3. h[k + 1] = Round(order, h[(k + 1) - 1], k + 1) /\ (k + 1) - 1 = k
    BY <1>3, <2>2 DEF Rounds
  <2>4. Rearranged(s, h[k + 1], n)
    BY <2>2, <2>3, RoundRearranges
  <2>5. Settled(order, h[k], n, (n - (k + 1)) + 1)
    BY <2>2
  <2>6. Settled(order, Round(order, h[k], k + 1), n, n - (k + 1))
    BY <2>2, <2>5, RoundSettles, Zenon
  <2>7. QED
    BY <2>3, <2>4, <2>6
<1>6. r \in P
  <2> HIDE DEF P, r
  <2>1. QED
    BY <1>2, <1>4, <1>5, ByCondition!Inductive
<1> DEFINE out == Sorted(s, order)
<1>7. Rearranged(s, out, n) /\ Settled(order, out, n, n - r)
  BY <1>2, <1>3, <1>6 DEF Rounds
<1> HIDE DEF out
<1>8. \A i \in 1..n : Numbers(out[i], order)
  BY <1>7, RearrangedNumbers, Zenon
<1>9. ASSUME NEW i \in 1..n, NEW j \in 1..n, i < j PROVE InOrder(out[i], out[j], order)
  <2>1. j > n - r
    BY <1>9
  <2>2. ~ After(out[i], out[j], order)
    BY <1>7, <1>9, <2>1 DEF Settled
  <2>3. QED
    BY <1>8, <2>2, SwapIsAfter
<1>10. QED
  BY <1>9 DEF out

Often(s, n, row) == Cardinality({i \in 1..n : s[i] = row})

\* Any row is as often in one as in the other.
LEMMA RearrangedCounts ==
  ASSUME NEW n \in Nat, NEW s, NEW t, Rearranged(s, t, n), NEW row
  PROVE  Often(t, n, row) = Often(s, n, row)
<1> DEFINE T == {i \in 1..n : t[i] = row}
           S == {i \in 1..n : s[i] = row}
<1>1. PICK p \in Bijection(1..n, 1..n) : \A i \in 1..n : t[i] = s[p[i]]
  BY DEF Rearranged
<1>2. /\ p \in [1..n -> 1..n] /\ (\A a, b \in 1..n : p[a] = p[b] => a = b)
      /\ \A x \in 1..n : \E i \in 1..n : p[i] = x
  BY <1>1 DEF Bijection, Injection, Surjection, IsInjective
<1> DEFINE q == [i \in T |-> p[i]]
<1>3. q \in [T -> S] /\ \A a, b \in T : q[a] = q[b] => a = b
  BY <1>1, <1>2, Zenon
<1>4. ASSUME NEW x \in S PROVE \E i \in T : q[i] = x
  <2>1. PICK i \in 1..n : p[i] = x
    BY <1>2
  <2>2. i \in T
    BY <1>1, <2>1
  <2>3. QED
    BY <2>1, <2>2
<1>5. IsFiniteSet(T)
  BY FS_Interval, FS_Subset
<1> HIDE DEF q, S, T
<1>6. q \in Bijection(T, S)
  BY <1>3, <1>4 DEF Bijection, Injection, Surjection, IsInjective
<1>7. Cardinality(S) = Cardinality(T)
  BY <1>5, <1>6, FS_Bijection DEF ExistsBijection
<1>8. QED
  BY <1>7 DEF S, T, Often

ThenKeep(X, t, x) == IF x \in X THEN t ELSE Append(t, x)
INSTANCE Folding WITH Op <- ThenKeep
-----------------------------------------------------------------------------
(* Powers, and sequences made of others *)

LEMMA PowerFacts ==
  /\ Power[0] = 1 /\ \A k \in 0..8 : Power[k] \in Nat \ {0}
  /\ \A k \in 1..8 : Power[k] = Base * Power[k - 1]
<1> DEFINE To(g, n) == \A k \in 0..n : g[k] = IF k = 0 THEN 1 ELSE Base * g[k - 1]
           P == {n \in Nat : \E g : To(g, n)}
           IsPower(g) == g = [k \in 0..8 |-> IF k = 0 THEN 1 ELSE Base * g[k - 1]]
<1>1. 0 \in P
  <2>1. To([k \in 0..0 |-> 1], 0)
    OBVIOUS
  <2>2. QED
    BY <2>1, Zenon
<1>2. ASSUME NEW n \in Nat, n \in P PROVE n + 1 \in P
  <2>1. PICK g : To(g, n)
    BY <1>2
  <2> DEFINE h == [k \in 0..(n + 1) |-> IF k <= n THEN g[k] ELSE Base * g[n]]
  <2>2. ASSUME NEW k \in 0..(n + 1) PROVE h[k] = IF k = 0 THEN 1 ELSE Base * h[k - 1]
    <3>1. CASE k = 0
      BY <2>1, <3>1
    <3>2. CASE k # 0 /\ k <= n
      <4>1. g[k] = Base * g[k - 1] /\ k - 1 \in 0..(n + 1) /\ k - 1 <= n
        BY <2>1, <3>2
      <4>2. QED
        BY <3>2, <4>1
    <3>3. CASE k = n + 1
      BY <3>3
    <3>4. QED
      BY <3>1, <3>2, <3>3
  <2> HIDE DEF h
  <2>3. To(h, n + 1)
    BY <2>2
  <2>4. QED
    BY <2>3
<1>3. 8 \in P
  <2> HIDE DEF P
  <2>1. QED
    BY <1>1, <1>2, ByCondition!Inductive
<1>4. PICK g : To(g, 8)
  BY <1>3
<1>5. \E p : IsPower(p)
  <2> DEFINE h == [k \in 0..8 |-> g[k]]
  <2>1. ASSUME NEW k \in 0..8 PROVE h[k] = IF k = 0 THEN 1 ELSE Base * h[k - 1]
    <3>1. g[k] = IF k = 0 THEN 1 ELSE Base * g[k - 1]
      BY <1>4
    <3>2. QED
      BY <3>1
  <2>2. h = [k \in 0..8 |-> IF k = 0 THEN 1 ELSE Base * h[k - 1]]
    BY <2>1
  <2> HIDE DEF h
  <2>3. QED
    BY <2>2
<1>6. IsPower(Power)
  BY <1>5 DEF Power
<1>7. \A k \in 0..8 : Power[k] = IF k = 0 THEN 1 ELSE Base * Power[k - 1]
  BY <1>6
<1> DEFINE Q == {k \in Nat : k <= 8 => Power[k] \in Nat \ {0}}
<1>8. 0 \in Q
  BY <1>7
<1>9. ASSUME NEW k \in Nat, k \in Q PROVE k + 1 \in Q
  <2>1. SUFFICES ASSUME k + 1 <= 8 PROVE Power[k + 1] \in Nat \ {0}
    OBVIOUS
  <2>2. Power[k + 1] = Base * Power[k] /\ Power[k] \in Nat \ {0} /\ Base \in Nat \ {0}
    BY <1>7, <1>9, <2>1, ValueAssumption
  <2> HIDE DEF Q
  <2>3. \A x \in Nat \ {0}, y \in Nat \ {0} : x * y \in Nat \ {0}
    OBVIOUS
  <2>4. QED
    BY <2>2, <2>3
<1>10. \A k \in Nat : k \in Q
  <2> HIDE DEF Q
  <2>1. QED
    BY <1>8, <1>9, ByCondition!Inductive
<1>11. \A k \in 0..8 : Power[k] \in Nat \ {0}
  BY <1>10
<1>12. \A k \in 1..8 : Power[k] = Base * Power[k - 1]
  BY <1>7
<1>13. QED
  BY <1>7, <1>11, <1>12

\* s has n pieces, sequences over S.
Pieces(s, S, n) == s = [i \in 1..n |-> s[i]] /\ Len(s) = n /\ \A i \in 1..n : s[i] \in Seq(S)

\* The sequences of s put end to end, one after the other.
Joins(h, s, n) == h[0] = <<>> /\ \A k \in 0..(n - 1) : h[k + 1] = h[k] \o s[k + 1]

JoinTable(s) == CHOOSE g : g = [i \in 1..Len(s) |-> IF i = 1 THEN s[i] ELSE g[i - 1] \o s[i]]

LEMMA FlattenByTable ==
  ASSUME NEW s, Len(s) # 0
  PROVE  FlattenSeq(s) = JoinTable(s)[Len(s)]
  BY DEF FlattenSeq, JoinTable

LEMMA JoinTableExists ==
  ASSUME NEW s, NEW n \in Nat, Len(s) = n
  PROVE  JoinTable(s) = [i \in 1..n |-> IF i = 1 THEN s[i] ELSE JoinTable(s)[i - 1] \o s[i]]
<1> DEFINE To(g, m) == \A i \in 1..m : g[i] = IF i = 1 THEN s[i] ELSE g[i - 1] \o s[i]
           P == {m \in Nat : \E g : To(g, m)}
           MadeBy(g) == g = [i \in 1..Len(s) |-> IF i = 1 THEN s[i] ELSE g[i - 1] \o s[i]]
<1>1. 0 \in P
  <2>1. To(<<>>, 0)
    OBVIOUS
  <2>2. QED
    BY <2>1
<1>2. ASSUME NEW m \in Nat, m \in P PROVE m + 1 \in P
  <2>1. PICK g : To(g, m)
    BY <1>2
  <2> DEFINE h == [i \in 1..(m + 1) |-> IF i <= m THEN g[i] ELSE IF i = 1 THEN s[i] ELSE g[m] \o s[i]]
  <2>2. ASSUME NEW i \in 1..(m + 1) PROVE h[i] = IF i = 1 THEN s[i] ELSE h[i - 1] \o s[i]
    <3>1. CASE i <= m
      <4>1. g[i] = (IF i = 1 THEN s[i] ELSE g[i - 1] \o s[i]) /\ h[i] = g[i] /\ i \in 1..m
        BY <2>1, <3>1
      <4>2. i # 1 => h[i - 1] = g[i - 1]
        BY <4>1
      <4>3. QED
        BY <4>1, <4>2
    <3>2. CASE i = m + 1
      <4>1. i # 1 => h[i - 1] = g[m]
        BY <3>2
      <4>2. QED
        BY <3>2, <4>1
    <3>3. QED
      BY <3>1, <3>2
  <2> HIDE DEF h
  <2>3. To(h, m + 1)
    BY <2>2
  <2>4. QED
    BY <2>3
<1>3. n \in P
  <2> HIDE DEF P
  <2>1. QED
    BY <1>1, <1>2, ByCondition!Inductive
<1>4. PICK g : To(g, n)
  BY <1>3
<1>5. \E t : MadeBy(t)
  <2> DEFINE h == [i \in 1..n |-> g[i]]
  <2>1. ASSUME NEW i \in 1..n PROVE h[i] = IF i = 1 THEN s[i] ELSE h[i - 1] \o s[i]
    <3>1. g[i] = IF i = 1 THEN s[i] ELSE g[i - 1] \o s[i]
      BY <1>4
    <3>2. i # 1 => h[i - 1] = g[i - 1]
      OBVIOUS
    <3>3. QED
      BY <3>1, <3>2
  <2>2. h = [i \in 1..n |-> IF i = 1 THEN s[i] ELSE h[i - 1] \o s[i]]
    BY <2>1
  <2> HIDE DEF h
  <2>3. QED
    BY <2>2, Zenon
<1>6. MadeBy(JoinTable(s))
  BY <1>5, Zenon DEF JoinTable
<1>7. QED
  BY <1>6, Zenon

LEMMA ConcatParts ==
  ASSUME NEW S, NEW a \in Seq(S), NEW b \in Seq(S)
  PROVE  /\ a \o b \in Seq(S) /\ Len(a \o b) = Len(a) + Len(b) /\ Len(a) \in Nat /\ Len(b) \in Nat
         /\ \A j \in 1..Len(a) : (a \o b)[j] = a[j]
         /\ \A j \in 1..Len(b) : (a \o b)[Len(a) + j] = b[j]
<1>1. Len(a) \in Nat /\ Len(b) \in Nat
  BY LenProperties
<1> DEFINE c == a \o b
<1>2. /\ c \in Seq(S) /\ Len(c) = Len(a) + Len(b)
      /\ \A i \in 1..(Len(a) + Len(b)) : c[i] = IF i <= Len(a) THEN a[i] ELSE b[i - Len(a)]
  BY ConcatProperties
<1> HIDE DEF c
<1>3. ASSUME NEW j \in 1..Len(a) PROVE c[j] = a[j]
  BY <1>1, <1>2
<1>4. ASSUME NEW j \in 1..Len(b) PROVE c[Len(a) + j] = b[j]
  <2>1. /\ Len(a) + j \in 1..(Len(a) + Len(b)) /\ ~ (Len(a) + j <= Len(a))
        /\ (Len(a) + j) - Len(a) = j
    BY <1>1
  <2>2. c[Len(a) + j] = b[(Len(a) + j) - Len(a)]
    BY <1>2, <2>1
  <2>3. QED
    BY <2>1, <2>2
<1>5. QED
  BY <1>1, <1>2, <1>3, <1>4 DEF c

LEMMA FlattenJoins ==
  ASSUME NEW S, NEW n \in Nat, NEW s, Pieces(s, S, n)
  PROVE  \E h : /\ Joins(h, s, n) /\ FlattenSeq(s) = h[n]
                /\ \A k \in 0..n : h[k] \in Seq(S)
<1> DEFINE t == JoinTable(s)
           h == [k \in 0..n |-> IF k = 0 THEN <<>> ELSE t[k]]
<1>0. Len(s) = n /\ s = [i \in 1..n |-> s[i]] /\ \A i \in 1..n : s[i] \in Seq(S)
  BY DEF Pieces
<1>1. t = [i \in 1..n |-> IF i = 1 THEN s[i] ELSE t[i - 1] \o s[i]]
  BY <1>0, JoinTableExists, Zenon
<1>2. FlattenSeq(s) = h[n]
  <2>1. CASE n = 0
    <3>1. s = <<>> /\ h[n] = <<>>
      BY <1>0, <2>1
    <3>2. QED
      BY <1>0, <2>1, <3>1 DEF FlattenSeq
  <2>2. CASE n # 0
    BY <1>0, <2>2, FlattenByTable
  <2>3. QED
    BY <2>1, <2>2
<1> HIDE DEF t
<1>4. ASSUME NEW k \in 1..n PROVE h[k] = h[k - 1] \o s[k]
  <2>1. h[k] = IF k = 1 THEN s[k] ELSE t[k - 1] \o s[k]
    <3>1. t[k] = IF k = 1 THEN s[k] ELSE t[k - 1] \o s[k]
      BY <1>1, Zenon
    <3>2. h[k] = t[k]
      OBVIOUS
    <3>3. QED
      BY <3>1, <3>2
  <2>2. CASE k = 1
    <3>1. h[k - 1] = <<>> /\ h[k] = s[k] /\ s[k] \in Seq(S)
      BY <1>0, <2>1, <2>2
    <3> HIDE DEF h
    <3>2. QED
      BY <3>1, ConcatEmptySeq
  <2>3. CASE k # 1
    <3>1. h[k - 1] = t[k - 1]
      BY <2>3
    <3> HIDE DEF h
    <3>2. QED
      BY <2>1, <2>3, <3>1, Zenon
  <2>4. QED
    BY <2>2, <2>3, Zenon
<1>5. h[0] = <<>>
  OBVIOUS
<1> HIDE DEF h
<1>9. Joins(h, s, n)
  <2>1. ASSUME NEW k \in 0..(n - 1) PROVE h[k + 1] = h[k] \o s[k + 1]
    <3>1. k + 1 \in 1..n /\ (k + 1) - 1 = k
      OBVIOUS
    <3>2. h[k + 1] = h[(k + 1) - 1] \o s[k + 1]
      BY <1>4, <3>1, Zenon
    <3>3. QED
      BY <3>1, <3>2, Zenon
  <2>2. QED
    BY <1>5, <2>1, Zenon DEF Joins
<1> DEFINE P == {k \in Nat : k <= n => h[k] \in Seq(S)}
<1>6. 0 \in P
  <2>1. <<>> \in Seq(S)
    BY EmptySeq
  <2>2. QED
    BY <1>5, <2>1, Zenon
<1>7. ASSUME NEW k \in Nat, k \in P PROVE k + 1 \in P
  <2>1. SUFFICES ASSUME k + 1 <= n PROVE h[k + 1] \in Seq(S)
    OBVIOUS
  <2>2. h[k] \in Seq(S) /\ k + 1 \in 1..n /\ k \in 0..(n - 1)
    BY <1>7, <2>1
  <2>3. h[k + 1] = h[k] \o s[k + 1] /\ s[k + 1] \in Seq(S)
    BY <1>0, <1>9, <2>2, Zenon DEF Joins
  <2>4. QED
    BY <2>2, <2>3, ConcatProperties
<1>8. \A k \in Nat : k \in P
  <2> HIDE DEF P
  <2>1. QED
    BY <1>6, <1>7, ByCondition!Inductive
<1>10. \A k \in 0..n : h[k] \in Seq(S)
  BY <1>8
<1>11. QED
  BY <1>2, <1>9, <1>10

\* How long the first k pieces are together.
JoinLen(s, k) == Len(FlattenSeq(SubSeq(s, 1, k)))

LEMMA FirstPieces ==
  ASSUME NEW S, NEW n \in Nat, NEW s, Pieces(s, S, n), NEW k \in 0..n
  PROVE  Pieces(SubSeq(s, 1, k), S, k) /\ \A i \in 1..k : SubSeq(s, 1, k)[i] = s[i]
<1> DEFINE T == Seq(S)
<1>1. s \in Seq(T) /\ Len(s) = n /\ \A i \in 1..n : s[i] \in T
  BY SeqMade DEF Pieces
<1> HIDE DEF T
<1> DEFINE u == SubSeq(s, 1, k)
<1>2. u \in Seq(T) /\ Len(u) = k /\ \A i \in 1..k : u[i] = s[i]
  BY <1>1
<1> HIDE DEF u
<1>3. u = [i \in 1..k |-> u[i]] /\ \A i \in 1..k : u[i] \in T
  BY <1>1, <1>2, SeqParts
<1>4. QED
  BY <1>2, <1>3 DEF Pieces, T, u

LEMMA JoinsAgree ==
  ASSUME NEW S, NEW n \in Nat, NEW s, Pieces(s, S, n), NEW h, Joins(h, s, n), NEW k \in 0..n
  PROVE  FlattenSeq(SubSeq(s, 1, k)) = h[k]
<1> DEFINE u == SubSeq(s, 1, k)
<1>1. Pieces(u, S, k) /\ \A i \in 1..k : u[i] = s[i]
  BY FirstPieces
<1> HIDE DEF u
<1>2. PICK g : /\ Joins(g, u, k) /\ FlattenSeq(u) = g[k]
               /\ \A i \in 0..k : g[i] \in Seq(S)
  BY <1>1, FlattenJoins
<1> DEFINE P == {i \in Nat : i <= k => g[i] = h[i]}
<1>3. 0 \in P
  BY <1>2 DEF Joins
<1>4. ASSUME NEW i \in Nat, i \in P PROVE i + 1 \in P
  <2>1. SUFFICES ASSUME i + 1 <= k PROVE g[i + 1] = h[i + 1]
    OBVIOUS
  <2>2. i \in 0..(k - 1) /\ i \in 0..(n - 1) /\ i + 1 \in 1..k /\ g[i] = h[i]
    BY <1>4, <2>1
  <2>3. g[i + 1] = g[i] \o u[i + 1] /\ h[i + 1] = h[i] \o s[i + 1]
    BY <1>2, <2>2, Zenon DEF Joins
  <2>4. QED
    BY <1>1, <2>2, <2>3, Zenon
<1>5. k \in P
  <2> HIDE DEF P
  <2>1. QED
    BY <1>3, <1>4, ByCondition!Inductive
<1>6. QED
  BY <1>2, <1>5 DEF u

\* What joined pieces are: each lies behind those before it.
\* Where the pieces of s lie when they are put end to end.
Joined(s, n) ==
  /\ \A k \in 0..n : JoinLen(s, k) \in Nat /\ JoinLen(s, k) <= JoinLen(s, n)
  /\ \A k \in 0..(n - 1) : JoinLen(s, k + 1) = JoinLen(s, k) + Len(s[k + 1])
  /\ \A k \in 0..(n - 1) : \A j \in 1..Len(s[k + 1]) :
       FlattenSeq(s)[JoinLen(s, k) + j] = s[k + 1][j]

LEMMA JoinFacts ==
  ASSUME NEW S, NEW n \in Nat, NEW s, Pieces(s, S, n)
  PROVE  /\ FlattenSeq(s) \in Seq(S) /\ Len(FlattenSeq(s)) = JoinLen(s, n) /\ JoinLen(s, 0) = 0
         /\ Joined(s, n)
<1>1. PICK h : /\ Joins(h, s, n) /\ FlattenSeq(s) = h[n]
               /\ \A k \in 0..n : h[k] \in Seq(S)
  BY FlattenJoins, Zenon
<1>2. \A k \in 0..n : JoinLen(s, k) = Len(h[k]) /\ Len(h[k]) \in Nat
  <2>1. \A k \in 0..n : JoinLen(s, k) = Len(h[k])
    BY <1>1, JoinsAgree, Zenon DEF JoinLen
  <2>2. QED
    BY <1>1, <2>1, LenProperties
<1>3. ASSUME NEW k \in 0..(n - 1)
      PROVE  /\ Len(h[k + 1]) = Len(h[k]) + Len(s[k + 1]) /\ Len(s[k + 1]) \in Nat
             /\ \A j \in 1..Len(h[k]) : h[k + 1][j] = h[k][j]
             /\ \A j \in 1..Len(s[k + 1]) : h[k + 1][Len(h[k]) + j] = s[k + 1][j]
  <2>1. k \in 0..n /\ k + 1 \in 1..n
    OBVIOUS
  <2>2. h[k + 1] = h[k] \o s[k + 1]
    BY <1>1, Zenon DEF Joins
  <2>3. h[k] \in Seq(S) /\ s[k + 1] \in Seq(S)
    BY <1>1, <2>1 DEF Pieces
  <2> DEFINE a == h[k]  b == s[k + 1]  c == h[k + 1]
  <2>4. a \in Seq(S) /\ b \in Seq(S) /\ c = a \o b
    BY <2>2, <2>3
  <2> HIDE DEF a, b, c
  <2>5. /\ Len(c) = Len(a) + Len(b) /\ Len(b) \in Nat
        /\ \A j \in 1..Len(a) : c[j] = a[j]
        /\ \A j \in 1..Len(b) : c[Len(a) + j] = b[j]
    BY <2>4, ConcatParts
  <2>6. QED
    BY <2>5 DEF a, b, c
<1> DEFINE Begins(k, m) == /\ Len(h[k]) <= Len(h[m])
                           /\ \A j \in 1..Len(h[k]) : h[m][j] = h[k][j]
           P == {m \in Nat : m <= n => \A k \in 0..m : Begins(k, m)}
<1>4. 0 \in P
  <2>1. ASSUME NEW k \in 0..0 PROVE Begins(k, 0)
    <3>1. k = 0 /\ 0 \in 0..n
      OBVIOUS
    <3>2. Len(h[0]) \in Nat
      BY <1>2, <3>1
    <3>3. QED
      BY <3>1, <3>2
  <2> HIDE DEF Begins
  <2>2. QED
    BY <2>1
<1>5. ASSUME NEW m \in Nat, m \in P PROVE m + 1 \in P
  <2>1. SUFFICES ASSUME m + 1 <= n, NEW k \in 0..(m + 1) PROVE Begins(k, m + 1)
    <3> HIDE DEF Begins
    <3>1. QED
      OBVIOUS
  <2>2. m \in 0..(n - 1) /\ m \in 0..n /\ m + 1 \in 0..n /\ k \in 0..n
    BY <2>1
  <2>3. /\ Len(h[m + 1]) = Len(h[m]) + Len(s[m + 1]) /\ Len(s[m + 1]) \in Nat
        /\ \A j \in 1..Len(h[m]) : h[m + 1][j] = h[m][j]
    BY <1>3, <2>2, Zenon
  <2>4. Len(h[m]) \in Nat /\ Len(h[m + 1]) \in Nat /\ Len(h[k]) \in Nat
    BY <1>2, <2>2
  <2>5. CASE k = m + 1
    BY <2>4, <2>5
  <2>6. CASE k # m + 1
    <3>1. Begins(k, m)
      <4>1. k \in 0..m /\ m <= n
        BY <2>1, <2>6
      <4> HIDE DEF Begins
      <4>2. QED
        BY <1>5, <4>1
    <3> HIDE DEF P
    <3>2. \A j \in 1..Len(h[k]) : j \in 1..Len(h[m])
      BY <2>4, <3>1
    <3>3. Len(h[k]) <= Len(h[m + 1])
      <4> DEFINE a == Len(h[k])  b == Len(h[m])  c == Len(s[m + 1])  d == Len(h[m + 1])
      <4>1. a \in Nat /\ b \in Nat /\ c \in Nat /\ a <= b /\ d = b + c
        BY <2>3, <2>4, <3>1
      <4> HIDE DEF a, b, c, d
      <4>2. a <= d
        BY <4>1
      <4>3. QED
        BY <4>2 DEF a, d
    <3>4. \A j \in 1..Len(h[k]) : h[m + 1][j] = h[k][j]
      BY <2>3, <3>1, <3>2
    <3>5. QED
      BY <3>3, <3>4
  <2>7. QED
    BY <2>5, <2>6
<1>6. \A k \in 0..n : Begins(k, n)
  <2> HIDE DEF Begins
  <2>1. n \in P
    <3> HIDE DEF P
    <3>1. QED
      BY <1>4, <1>5, ByCondition!Inductive
  <2>2. QED
    BY <2>1
<1> HIDE DEF P
<1>7. JoinLen(s, 0) = 0
  <2>1. h[0] = <<>> /\ 0 \in 0..n
    BY <1>1 DEF Joins
  <2>2. QED
    BY <1>2, <2>1
<1>8. ASSUME NEW k \in 0..(n - 1), NEW j \in 1..Len(s[k + 1])
      PROVE  FlattenSeq(s)[JoinLen(s, k) + j] = s[k + 1][j]
  <2>1. k \in 0..n /\ k + 1 \in 0..n
    OBVIOUS
  <2>2. JoinLen(s, k) = Len(h[k]) /\ Len(h[k]) \in Nat /\ Len(h[k + 1]) \in Nat /\ Begins(k + 1, n)
    BY <1>2, <1>6, <2>1, Zenon
  <2>3. /\ h[k + 1][Len(h[k]) + j] = s[k + 1][j]
        /\ Len(h[k + 1]) = Len(h[k]) + Len(s[k + 1]) /\ Len(s[k + 1]) \in Nat
    BY <1>3, Zenon
  <2> DEFINE l == Len(s[k + 1])  a == Len(h[k])  b == Len(h[k + 1])
  <2>4. a + j \in 1..b
    <3>1. a \in Nat /\ l \in Nat /\ b = a + l /\ j \in 1..l
      BY <2>2, <2>3
    <3> HIDE DEF a, b, l
    <3>2. QED
      BY <3>1
  <2>5. h[n][a + j] = h[k + 1][a + j]
    <3> HIDE DEF a
    <3>1. QED
      BY <2>2, <2>4, Zenon
  <2>6. QED
    BY <1>1, <2>2, <2>3, <2>5
<1>9. ASSUME NEW k \in 0..(n - 1) PROVE JoinLen(s, k + 1) = JoinLen(s, k) + Len(s[k + 1])
  <2>1. k \in 0..n /\ k + 1 \in 0..n
    OBVIOUS
  <2>2. QED
    BY <1>2, <1>3, <2>1, Zenon
<1>10. ASSUME NEW k \in 0..n PROVE JoinLen(s, k) \in Nat /\ JoinLen(s, k) <= JoinLen(s, n)
  <2>1. n \in 0..n
    OBVIOUS
  <2>2. QED
    BY <1>2, <1>6, <2>1
<1>11. FlattenSeq(s) \in Seq(S) /\ Len(FlattenSeq(s)) = JoinLen(s, n)
  <2>1. n \in 0..n
    OBVIOUS
  <2>2. QED
    BY <1>1, <1>2, <2>1
<1>12. Joined(s, n)
  BY <1>8, <1>9, <1>10 DEF Joined
<1>13. QED
  BY <1>7, <1>11, <1>12
-----------------------------------------------------------------------------
(* Sequences without some of their elements *)

Keeps(h, X, s, n) == /\ h[0] = <<>> /\ h[n] = Without(s, X)
                     /\ \A k \in 0..(n - 1) : h[k + 1] = ThenKeep(X, h[k], s[k + 1])

LEMMA KeepSteps ==
  ASSUME NEW X, NEW n \in Nat, NEW s, DOMAIN s = 1..n
  PROVE  \E h : Keeps(h, X, s, n)
<1>1. Without(s, X) = FoldTable(X, <<>>, s)[DOMAIN s]
  BY DEF Without, FoldLeft, MapThenFoldSet, FoldTable, IsTable, FoldBy,
         Max, Max, ThenKeep
<1>2. PICK h : Steps(X, h, <<>>, s, n) /\ FoldTable(X, <<>>, s)[DOMAIN s] = h[n]
  BY FoldSteps
<1>3. h[0] = <<>> /\ \A k \in 1..n : h[k] = ThenKeep(X, h[k - 1], s[k])
  BY <1>2 DEF Steps
<1>4. ASSUME NEW k \in 0..(n - 1) PROVE h[k + 1] = ThenKeep(X, h[k], s[k + 1])
  <2>1. k + 1 \in 1..n /\ (k + 1) - 1 = k
    OBVIOUS
  <2>2. h[k + 1] = ThenKeep(X, h[(k + 1) - 1], s[k + 1])
    BY <1>3, <2>1
  <2>3. QED
    BY <2>1, <2>2
<1>5. QED
  BY <1>1, <1>2, <1>3, <1>4 DEF Keeps

LEMMA AppendParts ==
  ASSUME NEW S, NEW s \in Seq(S), NEW x \in S
  PROVE  /\ Append(s, x) \in Seq(S) /\ Len(Append(s, x)) = Len(s) + 1 /\ Len(s) \in Nat
         /\ \A i \in 1..Len(s) : Append(s, x)[i] = s[i]
         /\ Append(s, x)[Len(s) + 1] = x
  OBVIOUS

LEMMA WithoutSeq ==
  ASSUME NEW S, NEW X, NEW s \in Seq(S)
  PROVE  Without(s, X) \in Seq(S \ X)
<1> DEFINE n == Len(s)  T == S \ X
<1>1. n \in Nat /\ DOMAIN s = 1..n /\ \A i \in 1..n : s[i] \in S
  BY SeqParts
<1> HIDE DEF n
<1>2. PICK h : Keeps(h, X, s, n)
  BY <1>1, KeepSteps, Zenon
<1> DEFINE P == {k \in Nat : k <= n => h[k] \in Seq(T)}
<1>3. 0 \in P
  <2>1. <<>> \in Seq(T)
    BY EmptySeq
  <2>2. QED
    BY <1>2, <2>1, Zenon DEF Keeps
<1>4. ASSUME NEW k \in Nat, k \in P PROVE k + 1 \in P
  <2>1. SUFFICES ASSUME k + 1 <= n PROVE h[k + 1] \in Seq(T)
    OBVIOUS
  <2>2. h[k] \in Seq(T) /\ k \in 0..(n - 1) /\ k + 1 \in 1..n
    BY <1>1, <1>4, <2>1
  <2>3. h[k + 1] = ThenKeep(X, h[k], s[k + 1]) /\ s[k + 1] \in S
    BY <1>1, <1>2, <2>2 DEF Keeps
  <2>4. CASE s[k + 1] \in X
    BY <2>2, <2>3, <2>4 DEF ThenKeep
  <2>5. CASE s[k + 1] \notin X
    <3>1. s[k + 1] \in T
      BY <2>3, <2>5
    <3> HIDE DEF T
    <3>2. Append(h[k], s[k + 1]) \in Seq(T)
      BY <2>2, <3>1, AppendParts
    <3>3. QED
      BY <2>3, <2>5, <3>2 DEF ThenKeep
  <2>6. QED
    BY <2>4, <2>5
<1>5. n \in P
  <2> HIDE DEF P
  <2>1. QED
    BY <1>1, <1>3, <1>4, ByCondition!Inductive
<1>6. QED
  BY <1>1, <1>2, <1>5 DEF Keeps

LEMMA WithoutNone ==
  ASSUME NEW S, NEW X, NEW s \in Seq(S), \A i \in 1..Len(s) : s[i] \notin X
  PROVE  Without(s, X) = s
<1> DEFINE n == Len(s)
<1>1. n \in Nat /\ DOMAIN s = 1..n /\ \A i \in 1..n : s[i] \in S
  BY SeqParts
<1>0. \A i \in 1..n : s[i] \notin X
  OBVIOUS
<1> HIDE DEF n
<1>2. PICK h : Keeps(h, X, s, n)
  BY <1>1, KeepSteps, Zenon
<1> DEFINE Same1(k) == h[k] \in Seq(S) /\ Len(h[k]) = k /\ \A i \in 1..k : h[k][i] = s[i]
           P == {k \in Nat : k <= n => Same1(k)}
<1>3. 0 \in P
  <2>1. <<>> \in Seq(S) /\ Len(<<>>) = 0
    BY EmptySeq
  <2>2. h[0] = <<>>
    BY <1>2 DEF Keeps
  <2>3. \A i \in 1..0 : h[0][i] = s[i]
    OBVIOUS
  <2>4. Same1(0)
    BY <2>1, <2>2, <2>3
  <2> HIDE DEF Same1
  <2>5. QED
    BY <2>4
<1>4. ASSUME NEW k \in Nat, k \in P PROVE k + 1 \in P
  <2>1. SUFFICES ASSUME k + 1 <= n PROVE Same1(k + 1)
    OBVIOUS
  <2>2. Same1(k) /\ k \in 0..(n - 1) /\ k + 1 \in 1..n
    BY <1>1, <1>4, <2>1
  <2>3. h[k + 1] = Append(h[k], s[k + 1]) /\ s[k + 1] \in S
    BY <1>0, <1>1, <1>2, <2>2, Zenon DEF Keeps, ThenKeep
  <2> DEFINE a == h[k]  x == s[k + 1]  b == h[k + 1]
  <2>4. a \in Seq(S) /\ x \in S /\ Len(a) = k /\ b = Append(a, x)
    BY <2>2, <2>3
  <2>5. /\ b \in Seq(S) /\ Len(b) = k + 1 /\ \A i \in 1..k : b[i] = a[i]
        /\ b[k + 1] = x
    <3> HIDE DEF a, x, b
    <3>1. QED
      BY <2>4, AppendParts
  <2>6. ASSUME NEW i \in 1..(k + 1) PROVE b[i] = s[i]
    <3>1. i = k + 1 \/ i \in 1..k
      OBVIOUS
    <3>2. QED
      BY <2>2, <2>5, <3>1
  <2>7. QED
    BY <2>5, <2>6
<1>5. n \in P
  <2> HIDE DEF P
  <2>1. QED
    BY <1>1, <1>3, <1>4, ByCondition!Inductive
<1>6. Without(s, X) \in Seq(S) /\ Len(Without(s, X)) = Len(s) /\ \A i \in 1..Len(s) : Without(s, X)[i] = s[i]
  BY <1>1, <1>2, <1>5 DEF Keeps, n
<1>7. QED
  BY <1>6, SeqEqual

\* The variable-length columns of C, in their order.
VarCols(C) == Without([i \in DOMAIN C |-> i], FixedCols(C))

LEMMA VarsFacts ==
  ASSUME NEW n \in Nat, NEW C, DOMAIN C = 1..n
  PROVE  /\ VarCols(C) \in Seq(1..n) /\ Len(VarCols(C)) = VarsBefore(C, n + 1)
         /\ \A i \in 1..n : Variable(C[i].type) =>
              VarsBefore(C, i) \in 0..(Len(VarCols(C)) - 1) /\ VarCols(C)[VarsBefore(C, i) + 1] = i
<1> DEFINE s == [i \in DOMAIN C |-> i]
           V(i) == VarsBefore(C, i)
<1>1. DOMAIN s = 1..n /\ \A i \in 1..n : s[i] = i
  OBVIOUS
<1>2. VarCols(C) = Without(s, FixedCols(C))
  BY DEF VarCols
<1> HIDE DEF s
<1>3. PICK h : Keeps(h, FixedCols(C), s, n)
  BY <1>1, KeepSteps
<1>4. \A i \in 1..n : i \in FixedCols(C) <=> ~ Variable(C[i].type)
  BY DEF FixedCols
<1>5. ASSUME NEW k \in 0..(n - 1)
      PROVE V(k + 2) = (IF Variable(C[k + 1].type) THEN V(k + 1) + 1 ELSE V(k + 1)) /\ V(k + 1) \in Nat
  <2> DEFINE A == {j \in 1..k : Variable(C[j].type)}
             B == {j \in 1..(k + 1) : Variable(C[j].type)}
  <2>1. V(k + 1) = Cardinality(A) /\ V(k + 2) = Cardinality(B)
    <3>1. (k + 1) - 1 = k /\ (k + 2) - 1 = k + 1
      OBVIOUS
    <3>2. QED
      BY <3>1 DEF VarsBefore
  <2>2. IsFiniteSet(A)
    BY FS_Interval, FS_Subset
  <2>3. k + 1 \notin A /\ B = IF Variable(C[k + 1].type) THEN A \cup {k + 1} ELSE A
    OBVIOUS
  <2> HIDE DEF A, B
  <2>4. Cardinality(A \cup {k + 1}) = Cardinality(A) + 1 /\ Cardinality(A) \in Nat
    BY <2>2, <2>3, FS_AddElement, FS_CardinalityType, Zenon
  <2>5. QED
    BY <2>1, <2>3, <2>4
<1> DEFINE Good(k) == /\ h[k] \in Seq(1..n) /\ Len(h[k]) = V(k + 1)
                      /\ \A i \in 1..k : Variable(C[i].type) =>
                           V(i) \in 0..(Len(h[k]) - 1) /\ h[k][V(i) + 1] = i
           P == {k \in Nat : k <= n => Good(k)}
<1>6. 0 \in P
  <2>1. <<>> \in Seq(1..n) /\ Len(<<>>) = 0
    BY EmptySeq
  <2>2. V(1) = 0
    <3>1. {j \in 1..(1 - 1) : Variable(C[j].type)} = {}
      OBVIOUS
    <3>2. QED
      BY <3>1, FS_EmptySet DEF VarsBefore
  <2> HIDE DEF V
  <2>3. h[0] = <<>> /\ 0 + 1 = 1
    BY <1>3 DEF Keeps
  <2>4. Good(0)
    BY <2>1, <2>2, <2>3
  <2> HIDE DEF Good
  <2>5. QED
    BY <2>4
<1>7. ASSUME NEW k \in Nat, k \in P PROVE k + 1 \in P
  <2>1. SUFFICES ASSUME k + 1 <= n PROVE Good(k + 1)
    <3> HIDE DEF Good
    <3>1. QED
      OBVIOUS
  <2>2. Good(k) /\ k \in 0..(n - 1) /\ k + 1 \in 1..n
    <3> HIDE DEF Good
    <3>1. QED
      BY <1>7, <2>1
  <2>3. h[k + 1] = ThenKeep(FixedCols(C), h[k], s[k + 1]) /\ s[k + 1] = k + 1
    BY <1>1, <1>3, <2>2 DEF Keeps
  <2>4. V(k + 2) = (IF Variable(C[k + 1].type) THEN V(k + 1) + 1 ELSE V(k + 1)) /\ V(k + 1) \in Nat
    BY <1>5, <2>2
  <2> HIDE DEF V, P
  <2>5. (k + 1) + 1 = k + 2
    OBVIOUS
  <2>6. CASE ~ Variable(C[k + 1].type)
    <3>1. h[k + 1] = h[k]
      BY <1>4, <2>2, <2>3, <2>6 DEF ThenKeep
    <3>2. \A i \in 1..(k + 1) : Variable(C[i].type) => i \in 1..k
      BY <2>6
    <3>3. QED
      BY <2>2, <2>4, <2>5, <2>6, <3>1, <3>2, Zenon
  <2>7. CASE Variable(C[k + 1].type)
    <3> DEFINE a == h[k]  b == h[k + 1]
    <3>1. b = Append(a, k + 1)
      BY <1>4, <2>2, <2>3, <2>7 DEF ThenKeep
    <3>2. a \in Seq(1..n) /\ Len(a) = V(k + 1)
      BY <2>2
    <3>3. /\ b \in Seq(1..n) /\ Len(b) = Len(a) + 1 /\ Len(a) \in Nat
          /\ \A i \in 1..Len(a) : b[i] = a[i]
          /\ b[Len(a) + 1] = k + 1
      <4> HIDE DEF a, b
      <4>1. QED
        BY <2>2, <3>1, <3>2, AppendParts
    <3>4. ASSUME NEW i \in 1..(k + 1), Variable(C[i].type)
          PROVE  V(i) \in 0..(Len(b) - 1) /\ b[V(i) + 1] = i
      <4>1. CASE i = k + 1
        BY <3>2, <3>3, <4>1
      <4>2. CASE i # k + 1
        <5>1. i \in 1..k
          BY <4>2
        <5>2. V(i) \in 0..(Len(a) - 1) /\ a[V(i) + 1] = i
          BY <2>2, <3>4, <5>1
        <5> HIDE DEF a, b
        <5>3. V(i) + 1 \in 1..Len(a) /\ V(i) \in 0..(Len(b) - 1)
          BY <3>3, <5>2
        <5>4. QED
          BY <3>3, <5>2, <5>3, Zenon
      <4>3. QED
        BY <4>1, <4>2
    <3>5. Len(b) = V((k + 1) + 1)
      BY <2>4, <2>5, <2>7, <3>2, <3>3
    <3>6. QED
      BY <3>3, <3>4, <3>5
  <2>8. QED
    BY <2>6, <2>7
<1>8. Good(n)
  <2> HIDE DEF Good
  <2>1. n \in P
    <3> HIDE DEF P
    <3>1. QED
      BY <1>6, <1>7, ByCondition!Inductive
  <2>2. QED
    BY <2>1
<1>9. h[n] = VarCols(C)
  BY <1>2, <1>3 DEF Keeps
<1>10. QED
  BY <1>8, <1>9

LEMMA BaseFacts == Base \in Nat /\ Base > 1 /\ Base \in Int
BY ValueAssumption

LEMMA U16Facts ==
  ASSUME NEW x \in Nat
  PROVE  /\ U16(x) \in Seq(Int) /\ Len(U16(x)) = 2
         /\ U16(x)[1] + U16(x)[2] * Base = x
<1> DEFINE a == x % Base  b == x \div Base
<1>1. a \in Int /\ b \in Int
  BY BaseFacts
<1>2. x = Base * b + a
  BY BaseFacts
<1>3. U16(x) = <<a, b>>
  BY DEF U16
<1> HIDE DEF a, b
<1> DEFINE y == b * Base
<1>4. y = Base * b
  BY <1>1, BaseFacts
<1>5. y \in Int /\ x = y + a
  BY <1>1, <1>2, <1>4, BaseFacts
<1> HIDE DEF y
<1>6. U16(x) \in Seq(Int) /\ Len(U16(x)) = 2 /\ U16(x)[1] = a /\ U16(x)[2] = b
  BY <1>1, <1>3
<1>7. U16(x)[1] + U16(x)[2] * Base = a + y
  BY <1>6 DEF y
<1>8. QED
  BY <1>1, <1>5, <1>6, <1>7

\* The greatest number of a set.
LEMMA GreatestInt ==
  ASSUME NEW T, IsFiniteSet(T), T \subseteq Int, T # {}
  PROVE  Max(T) \in T /\ \A m \in T : m <= Max(T)
<1> DEFINE Has(S) == \E x \in S : \A m \in S : m <= x
           P == {n \in Nat : \A S : IsFiniteSet(S) /\ S \subseteq Int /\ Cardinality(S) = n + 1 => Has(S)}
<1>1. 0 \in P
  <2>1. SUFFICES ASSUME NEW S, IsFiniteSet(S), S \subseteq Int, Cardinality(S) = 1 PROVE Has(S)
    OBVIOUS
  <2>2. PICK x : S = {x}
    BY <2>1, FS_Singleton
  <2>3. QED
    BY <2>1, <2>2
<1>2. ASSUME NEW n \in Nat, n \in P PROVE n + 1 \in P
  <2>1. SUFFICES ASSUME NEW S, IsFiniteSet(S), S \subseteq Int, Cardinality(S) = n + 2 PROVE Has(S)
    OBVIOUS
  <2>2. S # {}
    BY <2>1, FS_EmptySet
  <2>3. PICK x \in S : TRUE
    BY <2>2
  <2>4. IsFiniteSet(S \ {x}) /\ Cardinality(S \ {x}) = n + 1
    BY <2>1, <2>3, FS_RemoveElement
  <2>5. Has(S \ {x})
    BY <1>2, <2>1, <2>4, Zenon
  <2>6. PICK y \in S \ {x} : \A m \in S \ {x} : m <= y
    BY <2>5
  <2>7. CASE x <= y
    BY <2>1, <2>6, <2>7
  <2>8. CASE ~ (x <= y)
    <3>1. \A m \in S : m <= x
      BY <2>1, <2>6, <2>8
    <3>2. QED
      BY <3>1
  <2>9. QED
    BY <2>7, <2>8
<1>3. Cardinality(T) \in Nat /\ Cardinality(T) # 0
  BY FS_CardinalityType, FS_EmptySet
<1>4. Cardinality(T) - 1 \in P
  <2> HIDE DEF P
  <2>1. QED
    BY <1>1, <1>2, <1>3, ByCondition!Inductive
<1>5. Has(T)
  <2>1. Cardinality(T) = (Cardinality(T) - 1) + 1
    BY <1>3
  <2> HIDE DEF Has
  <2>2. QED
    BY <1>4, <2>1, Zenon
<1>6. QED
  BY <1>5, Zenon DEF Max

LEMMA SumSubset ==
  ASSUME NEW f, NEW S, IsFiniteSet(S), \A x \in S : f[x] \in Nat, NEW R \in SUBSET S
  PROVE  SumOf(f, R) \in Nat /\ SumOf(f, S) \in Nat /\ SumOf(f, R) <= SumOf(f, S)
<1> DEFINE Grows(T) == \A U \in SUBSET T : SumOf(f, U) <= SumOf(f, T)
           P == {n \in Nat : \A T \in SUBSET S : Cardinality(T) = n => Grows(T)}
<1>0. ASSUME NEW T \in SUBSET S PROVE IsFiniteSet(T) /\ SumOf(f, T) \in Int
  <2>1. IsFiniteSet(T) /\ \A x \in T : f[x] \in Int
    BY FS_Subset
  <2>2. QED
    BY <2>1, SumInt
<1>1. 0 \in P
  <2>1. SUFFICES ASSUME NEW T \in SUBSET S, Cardinality(T) = 0, NEW U \in SUBSET T
                 PROVE  SumOf(f, U) <= SumOf(f, T)
    OBVIOUS
  <2>2. T = {}
    BY <1>0, <2>1, FS_EmptySet
  <2>3. T = U
    BY <2>1, <2>2
  <2>4. QED
    BY <1>0, <2>3
<1>2. ASSUME NEW n \in Nat, n \in P PROVE n + 1 \in P
  <2>1. SUFFICES ASSUME NEW T \in SUBSET S, Cardinality(T) = n + 1, NEW U \in SUBSET T
                 PROVE  SumOf(f, U) <= SumOf(f, T)
    OBVIOUS
  <2>2. CASE U = T
    BY <1>0, <2>2
  <2>3. CASE U # T
    <3>1. PICK x \in T : x \notin U
      BY <2>3
    <3> DEFINE W == T \ {x}
    <3>2. IsFiniteSet(W) /\ Cardinality(W) = Cardinality(T) - 1
      <4>1. x \in T /\ IsFiniteSet(T)
        BY <1>0, <3>1
      <4>2. QED
        BY <4>1, FS_RemoveElement, Zenon
    <3>3. T = W \cup {x} /\ x \notin W /\ U \in SUBSET W /\ W \in SUBSET S
          /\ (\A y \in W \cup {x} : f[y] \in Int) /\ f[x] \in Nat
      BY <3>1
    <3> HIDE DEF W
    <3>4. Cardinality(W) = n
      BY <2>1, <3>2
    <3>5. SumOf(f, U) <= SumOf(f, W)
      BY <1>2, <3>3, <3>4
    <3>6. SumOf(f, W \cup {x}) = f[x] + SumOf(f, W)
      BY <3>2, <3>3, SumMore
    <3>7. SumOf(f, U) \in Int /\ SumOf(f, W) \in Int /\ SumOf(f, T) = f[x] + SumOf(f, W)
      BY <1>0, <2>1, <3>3, <3>6
    <3>8. QED
      BY <3>3, <3>5, <3>7
  <2>4. QED
    BY <2>2, <2>3
<1>3. Cardinality(S) \in P
  <2> HIDE DEF P
  <2>1. QED
    BY <1>1, <1>2, FS_CardinalityType, ByCondition!Inductive
<1>4. Grows(S)
  BY <1>3
<1>5. {} \in SUBSET R /\ {} \in SUBSET S /\ SumOf(f, {}) = 0
  BY SumEmpty
<1>6. SumOf(f, R) \in Int /\ SumOf(f, S) \in Int /\ SumOf(f, R) <= SumOf(f, S) /\ 0 <= SumOf(f, S)
  BY <1>0, <1>4, <1>5
<1>7. Grows(R)
  <2>1. Cardinality(R) \in P
    <3> HIDE DEF P
    <3>1. QED
      BY <1>0, <1>1, <1>2, FS_CardinalityType, ByCondition!Inductive
  <2>2. QED
    BY <2>1
<1>8. 0 <= SumOf(f, R)
  BY <1>5, <1>7
<1>9. QED
  BY <1>6, <1>8

\* The fixed-length columns before column i.
FixedBefore(d, i) == {j \in FixedCols(d.cols) : j < i}
Lengths(d) == [j \in DOMAIN d.cols |-> ColLen(d.cols[j])]

\* Offsets are not negative, and a fixed-length column lies behind those before it, each as wide
\* as its length (calculateOffsets, table.go).
LEMMA PlaceFacts ==
  ASSUME NEW d \in Schemas
  PROVE  /\ \A i \in DOMAIN d.cols : Place(d.cols, i) \in Nat /\ ColLen(d.cols[i]) \in Nat
         /\ \A i, j \in FixedCols(d.cols) : i < j =>
              Place(d.cols, i) + ColLen(d.cols[i]) <= Place(d.cols, j)
<1> DEFINE n == Len(d.cols)  f == Lengths(d)
<1>1. /\ n \in Nat /\ DOMAIN d.cols = 1..n /\ IsFiniteSet(1..n)
      /\ \A i \in 1..n : d.cols[i].type \in Types /\ d.cols[i].len \in Int
  BY DefParts, FS_Interval
<1>2. ASSUME NEW i \in 1..n PROVE ColLen(d.cols[i]) \in Nat
  BY <1>1, SizeFacts DEF ColLen
<1>3. \A i \in 1..n : f[i] \in Nat /\ f[i] = ColLen(d.cols[i])
  BY <1>1, <1>2 DEF Lengths
<1>4. ASSUME NEW i \in FixedCols(d.cols)
      PROVE  Place(d.cols, i) = SumOf(f, FixedBefore(d, i))
  <2> DEFINE B == FixedBefore(d, i)
  <2>1. B \subseteq DOMAIN d.cols /\ \A j \in B : f[j] = ColLen(d.cols[j])
    BY DEF FixedBefore, FixedCols, Lengths
  <2>2. ~ Variable(d.cols[i].type)
    BY DEF FixedCols
  <2>3. Place(d.cols, i) = MapThenSumSet(LAMBDA j : ColLen(d.cols[j]), B)
    BY <2>2 DEF Place, FixedBefore
  <2>4. MapThenSumSet(LAMBDA j : ColLen(d.cols[j]), B) = MapThenSumSet(LAMBDA j : f[j], B)
    BY Zenon DEF MapThenSumSet, MapThenFoldSet, Lengths, FixedBefore, FixedCols
  <2>5. QED
    BY <2>3, <2>4 DEF SumOf, B
<1>5. ASSUME NEW i \in FixedCols(d.cols)
      PROVE  /\ FixedBefore(d, i) \subseteq 1..n /\ IsFiniteSet(FixedBefore(d, i))
             /\ \A j \in FixedBefore(d, i) : f[j] \in Nat
  <2>1. FixedBefore(d, i) \subseteq 1..n
    BY <1>1 DEF FixedBefore, FixedCols
  <2>2. QED
    BY <1>1, <1>3, <2>1, FS_Subset
<1> HIDE DEF f, n
<1>6. ASSUME NEW i \in 1..n PROVE Place(d.cols, i) \in Nat
  <2>1. CASE i \in FixedCols(d.cols)
    BY <1>4, <1>5, <2>1, SumSubset
  <2>2. CASE i \notin FixedCols(d.cols)
    <3> DEFINE V == {j \in 1..(i - 1) : Variable(d.cols[j].type)}
    <3>1. IsFiniteSet(V)
      <4> DEFINE m == i - 1
      <4>1. V \subseteq 1..m /\ m \in Int /\ 1 \in Int
        BY <1>1
      <4> HIDE DEF m
      <4>2. IsFiniteSet(1..m)
        BY <4>1, FS_Interval
      <4>3. QED
        BY <4>1, <4>2, FS_Subset
    <3>2. Place(d.cols, i) = Cardinality(V)
      BY <1>1, <2>2 DEF Place, FixedCols
    <3>3. QED
      BY <3>1, <3>2, FS_CardinalityType
  <2>3. QED
    BY <2>1, <2>2
<1>7. ASSUME NEW i \in FixedCols(d.cols), NEW j \in FixedCols(d.cols), i < j
      PROVE  Place(d.cols, i) + ColLen(d.cols[i]) <= Place(d.cols, j)
  <2> DEFINE A == FixedBefore(d, i)  B == FixedBefore(d, j)
  <2>1. i \in 1..n /\ j \in 1..n
    BY <1>1 DEF FixedCols
  <2>2. i \notin A /\ A \cup {i} \subseteq B
    <3>1. \A k \in FixedCols(d.cols) : k \in Int
      BY <1>1 DEF FixedCols
    <3>2. QED
      BY <1>7, <3>1 DEF FixedBefore
  <2>3. /\ IsFiniteSet(A) /\ IsFiniteSet(B) /\ f[i] \in Nat /\ (\A k \in B : f[k] \in Nat)
        /\ f[i] = ColLen(d.cols[i])
    BY <1>3, <1>5, <2>1
  <2>4. Place(d.cols, i) = SumOf(f, A) /\ Place(d.cols, j) = SumOf(f, B)
    BY <1>4
  <2> HIDE DEF A, B
  <2>5. \A y \in A \cup {i} : f[y] \in Int
    BY <2>2, <2>3
  <2>6. SumOf(f, A \cup {i}) = f[i] + SumOf(f, A)
    BY <2>2, <2>3, <2>5, SumMore
  <2>7. A \cup {i} \in SUBSET B
    BY <2>2
  <2>8. SumOf(f, A \cup {i}) <= SumOf(f, B)
    BY <2>3, <2>7, SumSubset
  <2>9. SumOf(f, A) \in Nat /\ SumOf(f, B) \in Nat
    <3>1. A \in SUBSET B
      BY <2>2
    <3>2. QED
      BY <2>3, <3>1, SumSubset
  <2>10. QED
    BY <2>3, <2>4, <2>6, <2>8, <2>9
<1>8. QED
  BY <1>1, <1>2, <1>6, <1>7
-----------------------------------------------------------------------------
(* What is written of a value, and read back *)

LEMMA TypeNames == Types = {"Boolean", "Byte", "Int", "LongInt", "BigInt", "Money",
                           "Float", "Double", "DateTime", "Text", "Binary"}
BY DEF Types, Size

LEMMA KindTables ==
  ASSUME NEW t \in Types
  PROVE  /\ Size[t] \in 0..8 /\ (Size[t] = 0 <=> Variable(t))
         /\ Native[t] # "nil" /\ Native[t] \in Exact[t] /\ Exact[t] \subseteq Writes[t]
         /\ ~ Variable(t) => /\ Native[t] \notin {"nil", "string", "bytes"}
                            /\ Writes[t] \cap {"nil", "string", "bytes"} = {}
<1>1. /\ Size["Boolean"] = 1
      /\ Size["Byte"] = 1
      /\ Size["Int"] = 2
      /\ Size["LongInt"] = 4
      /\ Size["BigInt"] = 8
      /\ Size["Money"] = 8
      /\ Size["Float"] = 4
      /\ Size["Double"] = 8
      /\ Size["DateTime"] = 8
      /\ Size["Text"] = 0
      /\ Size["Binary"] = 0
  BY DEF Size
<1>2. /\ Native["Boolean"] = "bool"
      /\ Native["Byte"] = "byte"
      /\ Native["Int"] = "int16"
      /\ Native["LongInt"] = "int32"
      /\ Native["BigInt"] = "int64"
      /\ Native["Money"] = "float64"
      /\ Native["Float"] = "float32"
      /\ Native["Double"] = "float64"
      /\ Native["DateTime"] = "time"
      /\ Native["Text"] = "string"
      /\ Native["Binary"] = "bytes"
  BY DEF Native
<1>3. /\ Exact["Boolean"] = {"bool"}
      /\ Exact["Byte"] = {"byte", "int"}
      /\ Exact["Int"] = {"int16", "int", "int32"}
      /\ Exact["LongInt"] = {"int32", "int", "int64"}
      /\ Exact["BigInt"] = {"int64", "int"}
      /\ Exact["Money"] = {"float64", "float32", "int"}
      /\ Exact["Float"] = {"float32", "float64"}
      /\ Exact["Double"] = {"float64", "float32"}
      /\ Exact["DateTime"] = {"time"}
      /\ Exact["Text"] = {"string"}
      /\ Exact["Binary"] = {"bytes"}
  BY DEF Exact
<1>4. /\ Accepts["Boolean"] = {"bool"}
      /\ Accepts["Byte"] = {"byte", "int", "int64"}
      /\ Accepts["Int"] = {"int16", "int", "int32", "int64"}
      /\ Accepts["LongInt"] = {"int32", "int", "int64"}
      /\ Accepts["BigInt"] = {"int64", "int", "int32", "int16"}
      /\ Accepts["Money"] = {"float64", "float32", "int", "int64", "int32"}
      /\ Accepts["Float"] = {"float32", "float64"}
      /\ Accepts["Double"] = {"float64", "float32"}
      /\ Accepts["DateTime"] = {"time"}
      /\ Accepts["Text"] = {"string", "bytes"}
      /\ Accepts["Binary"] = {"bytes"}
  BY DEF Accepts
<1>5. /\ Writes["Boolean"] = {"bool"}
      /\ Writes["Byte"] = {"byte", "int"}
      /\ Writes["Int"] = {"int16", "int", "int32"}
      /\ Writes["LongInt"] = {"int32", "int", "int64"}
      /\ Writes["BigInt"] = {"int64", "int", "int32"}
      /\ Writes["Money"] = {"float64", "float32", "int"}
      /\ Writes["Float"] = {"float32", "float64"}
      /\ Writes["Double"] = {"float64", "float32"}
      /\ Writes["DateTime"] = {"time"}
      /\ Writes["Text"] = {"string", "bytes"}
      /\ Writes["Binary"] = {"bytes"}
  BY DEF Writes, Accepts
<1>6. Size[t] \in 0..8 /\ (Size[t] = 0 <=> Variable(t))
  BY <1>1, TypeNames DEF Variable
<1>7. Native[t] \in Exact[t]
  BY <1>2, <1>3, TypeNames
<1>8. Exact[t] \subseteq Writes[t]
  BY <1>3, <1>5, TypeNames
<1>9. ~ Variable(t) => Writes[t] \cap {"nil", "string", "bytes"} = {}
  BY <1>5, TypeNames DEF Variable
<1>10. Native[t] # "nil"
  BY <1>2, TypeNames
<1>11. ~ Variable(t) => Native[t] \notin {"nil", "string", "bytes"}
  BY <1>2, TypeNames DEF Variable
<1>12. /\ Size[t] \in 0..8 /\ (Size[t] = 0 <=> Variable(t))
       /\ Native[t] # "nil" /\ Native[t] \in Exact[t] /\ Exact[t] \subseteq Writes[t]
  BY <1>6, <1>7, <1>8, <1>10
<1>13. ~ Variable(t) => /\ Native[t] \notin {"nil", "string", "bytes"}
                        /\ Writes[t] \cap {"nil", "string", "bytes"} = {}
  BY <1>9, <1>11
<1>14. QED
  BY <1>12, <1>13

LEMMA FixedKinds ==
  ASSUME NEW t \in Types, NEW v, IsValue(v)
  PROVE  /\ Size[t] \in 0..8 /\ (Size[t] = 0 <=> Variable(t))
         /\ v.s \in Seq(Int) /\ v = [go |-> v.go, s |-> v.s]
         /\ Native[t] \in Exact[t] /\ Native[t] # "nil"
         /\ Exact[t] \subseteq Writes[t]
         /\ ~ Variable(t) => Native[t] \notin {"nil", "string", "bytes"}
         /\ ~ Variable(t) /\ v.go \in Writes[t] =>
              Len(v.s) = 1 /\ Number(v) \in Int /\ v.s = <<Number(v)>>
<1>2. v.s \in Seq(Int) /\ v = [go |-> v.go, s |-> v.s]
  BY DEF IsValue
<1>7. ASSUME Len(v.s) = 1 PROVE Number(v) \in Int /\ v.s = <<Number(v)>>
  <2> DEFINE q == v.s
  <2>1. q \in Seq(Int) /\ Len(q) = 1
    BY <1>2, <1>7
  <2> HIDE DEF q
  <2>2. q[1] \in Int /\ q = <<q[1]>>
    BY <2>1
  <2>3. QED
    BY <2>2 DEF q, Number
<1>8. ~ Variable(t) /\ v.go \in Writes[t] => Len(v.s) = 1
  BY KindTables DEF IsValue
<1>9. QED
  BY <1>2, <1>7, <1>8, KindTables

\* The bytes of a number, and any number read from bytes.
Cells(t) == [1..Size[t] -> Int]

LEMMA BytesFacts ==
  ASSUME NEW t \in Types, NEW n \in Int
  PROVE  Bytes(t, n) \in Cells(t) /\ DOMAIN Bytes(t, n) = 1..Size[t]
<1>1. Size[t] \in 0..8
  BY DEF Types, Size
<1> DEFINE z == Size[t]
<1>2. ASSUME NEW j \in 1..z PROVE (n \div Power[j - 1]) % Base \in Int
  <2> HIDE DEF z
  <2> DEFINE p == Power[j - 1]
  <2>1. p \in Nat \ {0}
    BY <1>1, PowerFacts DEF z
  <2> HIDE DEF p
  <2>2. n \div p \in Int
    BY <2>1
  <2>3. (n \div p) % Base \in Int
    BY <2>2, BaseFacts
  <2>4. QED
    BY <2>3 DEF p
<1>3. QED
  BY <1>2 DEF Bytes, Cells

LEMMA FromBytesInt ==
  ASSUME NEW t \in Types, NEW b \in Cells(t)
  PROVE  FromBytes(t, b) \in Int
<1> DEFINE z == Size[t]
           f == [j \in DOMAIN b |-> b[j] * Power[j - 1]]
           m == MapThenSumSet(LAMBDA j : b[j] * Power[j - 1], DOMAIN b)
<1>1. z \in 0..8
  BY DEF Types, Size
<1>2. DOMAIN b = 1..z /\ Len(b) = z /\ \A j \in 1..z : b[j] \in Int
  BY <1>1 DEF Cells
<1>3. m = MapThenSumSet(LAMBDA j : f[j], DOMAIN b)
  BY Zenon DEF MapThenSumSet, MapThenFoldSet
<1>4. m = SumOf(f, 1..z)
  BY <1>2, <1>3, Zenon DEF SumOf
<1>5. ASSUME NEW j \in 1..z PROVE f[j] \in Int
  <2>1. Power[j - 1] \in Int
    BY <1>1, PowerFacts
  <2>2. QED
    BY <1>2, <2>1
<1>6. IsFiniteSet(1..z)
  BY <1>1, FS_Interval
<1>7. m \in Int
  <2> HIDE DEF f, m, z
  <2>1. QED
    BY <1>4, <1>5, <1>6, SumInt, Zenon
<1>8. Power[Len(b)] \in Int
  <2> HIDE DEF z
  <2>1. Power[z] \in Int
    BY <1>1, PowerFacts
  <2>2. QED
    BY <1>2, <2>1
<1>9. FromBytes(t, b) = IF t = "Boolean" THEN (IF m # 0 THEN 1 ELSE 0)
                        ELSE IF t = "Byte" THEN m ELSE Signed(b, m)
  BY Zenon DEF FromBytes
<1>10. Signed(b, m) \in Int
  <2> HIDE DEF m, z
  <2>1. QED
    BY <1>7, <1>8 DEF Signed
<1>11. QED
  <2> HIDE DEF m
  <2>1. QED
    BY <1>7, <1>9, <1>10

LEMMA FixedInt ==
  ASSUME NEW t \in Types, ~ Variable(t), NEW v, IsValue(v)
  PROVE  Fixed(t, v) \in Int /\ Written(t, v) \in Cells(t) /\ Written(t, v) = Bytes(t, Fixed(t, v))
<1>1. v.go \in Writes[t] => Number(v) \in Int
  BY FixedKinds
<1> DEFINE n == Number(v)
<1>2. v.go \in Writes[t] => n * (Base - 1) \in Int /\ n - 1 \in Int /\ n \in Int
  BY <1>1, BaseFacts
<1>3. Fixed(t, v) \in Int
  <2> HIDE DEF n
  <2>1. Fixed(t, v) \in {0, n * (Base - 1), n - 1, n} /\ (v.go \notin Writes[t] => Fixed(t, v) = 0)
    BY DEF Fixed, n
  <2>2. QED
    BY <1>2, <2>1
<1>4. Written(t, v) = Bytes(t, Fixed(t, v))
  BY DEF Written
<1>5. QED
  BY <1>3, <1>4, BytesFacts

\* One byte of a truth value.
LEMMA BooleanBytes ==
  ASSUME NEW n \in Int
  PROVE  FromBytes("Boolean", Bytes("Boolean", n)) = IF n % Base # 0 THEN 1 ELSE 0
<1> DEFINE b == Bytes("Boolean", n)
           f == [j \in DOMAIN b |-> b[j] * Power[j - 1]]
           m == MapThenSumSet(LAMBDA j : b[j] * Power[j - 1], DOMAIN b)
<1>1. "Boolean" \in Types /\ Size["Boolean"] = 1
  BY TypeNames DEF Size
<1>2. DOMAIN b = 1..1 /\ b[1] = (n \div Power[0]) % Base
  BY <1>1 DEF Bytes
<1>3. n \div 1 = n /\ n % Base \in Int
  BY BaseFacts
<1>4. b[1] = n % Base
  BY <1>2, <1>3, PowerFacts
<1>5. m = MapThenSumSet(LAMBDA j : f[j], DOMAIN b)
  BY Zenon DEF MapThenSumSet, MapThenFoldSet
<1>6. f[1] = b[1] * 1 /\ DOMAIN b = {1}
  BY <1>2, PowerFacts
<1>7. f[1] = n % Base /\ f[1] \in Int
  BY <1>3, <1>4, <1>6
<1>8. m = SumOf(f, {1})
  BY <1>5, <1>6, Zenon DEF SumOf
<1>9. SumOf(f, {1}) = f[1]
  <2> HIDE DEF f, b, m
  <2>1. IsFiniteSet({}) /\ 1 \notin {} /\ (\A y \in {} \cup {1} : f[y] \in Int) /\ {1} = {} \cup {1}
    BY <1>7, FS_EmptySet
  <2>2. SumOf(f, {} \cup {1}) = f[1] + SumOf(f, {})
    BY <2>1, SumMore
  <2>3. QED
    BY <1>7, <2>1, <2>2, SumEmpty
<1>10. FromBytes("Boolean", b) = IF m # 0 THEN 1 ELSE 0
  BY Zenon DEF FromBytes
<1>11. QED
  <2> HIDE DEF m, f, b
  <2>1. m = n % Base
    BY <1>7, <1>8, <1>9
  <2>2. QED
    BY <1>10, <2>1 DEF b

\* The value of a kind the column reads as, with the content of v.
Canonical(t, v) == IF v = Nil THEN Nil ELSE [go |-> Native[t], s |-> v.s]

LEMMA FixedRoundTrip ==
  ASSUME NEW t \in Types, ~ Variable(t), NEW v, IsValue(v), v # Nil, IsExact(t, v)
  PROVE  Read(t, Written(t, v)) = Canonical(t, v)
<1> DEFINE n == Number(v)
<1>1. /\ v.go \in Writes[t] /\ InRange(t, n) /\ (t = "Money" => n \notin Dips)
      /\ n \in Int /\ v.s = <<n>>
  BY FixedKinds DEF IsExact
<1>2. Written(t, v) = Bytes(t, Fixed(t, v))
  BY FixedInt
<1> HIDE DEF n
<1>3. Fixed(t, v) = IF t = "Boolean" THEN n * (Base - 1) ELSE n
  BY <1>1 DEF Fixed, n
<1>4. FromBytes(t, Bytes(t, Fixed(t, v))) = n
  <2>1. CASE t # "Boolean"
    BY <1>1, <1>3, <2>1 DEF InRange
  <2>2. CASE t = "Boolean"
    <3>1. n = IF n % Base # 0 THEN 1 ELSE 0
      BY <1>1, <2>2, BooleanBytes DEF InRange
    <3>2. n = 0 \/ n = 1
      BY <3>1
    <3>3. n * (Base - 1) = IF n = 0 THEN 0 ELSE Base - 1
      BY <3>2, BaseFacts
    <3>4. (n * (Base - 1)) % Base # 0 <=> n = 1
      <4>1. 0 % Base = 0 /\ (Base - 1) % Base = Base - 1
        BY BaseFacts
      <4>2. QED
        BY <3>2, <3>3, <4>1, BaseFacts
    <3>5. n * (Base - 1) \in Int
      BY <3>2, <3>3, BaseFacts
    <3>6. FromBytes("Boolean", Bytes("Boolean", n * (Base - 1))) = n
      BY <3>2, <3>4, <3>5, BooleanBytes
    <3>7. QED
      BY <1>3, <2>2, <3>6
  <2>3. QED
    BY <2>1, <2>2
<1>5. Read(t, Written(t, v)) = Value(Native[t], n)
  BY <1>2, <1>4 DEF Read
<1>6. QED
  BY <1>1, <1>5 DEF Value, Canonical

\* Every piece has m elements; every piece has one at least.
Even(s, n, m) == \A i \in 1..n : Len(s[i]) = m
Filled(s, n) == \A i \in 1..n : Len(s[i]) >= 1

LEMMA PairsJoin ==
  ASSUME NEW S, NEW n \in Nat, NEW s, Pieces(s, S, n), Even(s, n, 2)
  PROVE  /\ \A k \in 0..n : JoinLen(s, k) = 2 * k
         /\ FlattenSeq(s) \in Seq(S) /\ Len(FlattenSeq(s)) = 2 * n
         /\ \A k \in 0..(n - 1) : /\ FlattenSeq(s)[2 * k + 1] = s[k + 1][1]
                                  /\ FlattenSeq(s)[2 * k + 2] = s[k + 1][2]
<1>1. /\ FlattenSeq(s) \in Seq(S) /\ Len(FlattenSeq(s)) = JoinLen(s, n) /\ JoinLen(s, 0) = 0
      /\ Joined(s, n)
  BY JoinFacts
<1> DEFINE P == {k \in Nat : k <= n => JoinLen(s, k) = 2 * k}
<1>2. 0 \in P
  BY <1>1
<1>3. ASSUME NEW k \in Nat, k \in P PROVE k + 1 \in P
  <2>1. SUFFICES ASSUME k + 1 <= n PROVE JoinLen(s, k + 1) = 2 * (k + 1)
    OBVIOUS
  <2>2. k \in 0..(n - 1) /\ k + 1 \in 1..n /\ JoinLen(s, k) = 2 * k
    BY <1>3, <2>1
  <2>3. JoinLen(s, k + 1) = JoinLen(s, k) + 2
    BY <1>1, <2>2, Zenon DEF Even, Joined
  <2>4. QED
    BY <2>2, <2>3
<1>4. \A k \in Nat : k \in P
  <2> HIDE DEF P
  <2>1. QED
    BY <1>2, <1>3, ByCondition!Inductive
<1>5. \A k \in 0..n : JoinLen(s, k) = 2 * k
  BY <1>4
<1>6. ASSUME NEW k \in 0..(n - 1)
      PROVE  FlattenSeq(s)[2 * k + 1] = s[k + 1][1] /\ FlattenSeq(s)[2 * k + 2] = s[k + 1][2]
  <2>1. k + 1 \in 1..n /\ k \in 0..n
    OBVIOUS
  <2>2. Len(s[k + 1]) = 2 /\ JoinLen(s, k) = 2 * k
    BY <1>5, <2>1 DEF Even
  <2>3. 1 \in 1..Len(s[k + 1]) /\ 2 \in 1..Len(s[k + 1])
    BY <2>2
  <2>4. QED
    BY <1>1, <2>2, <2>3, Zenon DEF Joined
<1>7. QED
  BY <1>1, <1>5, <1>6

InPair(s, k) == /\ FlattenSeq(s)[2 * k + 1] = s[k + 1][1]
                /\ FlattenSeq(s)[2 * k + 2] = s[k + 1][2]

LEMMA PairRead ==
  ASSUME NEW S, NEW n \in Nat, NEW s, Pieces(s, S, n), Even(s, n, 2), NEW k \in 0..(n - 1)
  PROVE  InPair(s, k)
BY PairsJoin, Zenon DEF InPair

\* Pieces of at least one element.
LEMMA PiecesCount ==
  ASSUME NEW S, NEW n \in Nat, NEW s, Pieces(s, S, n), Filled(s, n)
  PROVE  \A k \in 0..n : JoinLen(s, k) >= k
<1>1. JoinLen(s, 0) = 0 /\ Joined(s, n)
  BY JoinFacts, Zenon
<1> DEFINE P == {k \in Nat : k <= n => JoinLen(s, k) >= k}
<1>2. 0 \in P
  BY <1>1
<1>3. ASSUME NEW k \in Nat, k \in P PROVE k + 1 \in P
  <2>1. SUFFICES ASSUME k + 1 <= n PROVE JoinLen(s, k + 1) >= k + 1
    OBVIOUS
  <2>2. k \in 0..(n - 1) /\ k + 1 \in 1..n /\ JoinLen(s, k) >= k /\ JoinLen(s, k) \in Nat
    BY <1>1, <1>3, <2>1 DEF Joined
  <2>3. JoinLen(s, k + 1) = JoinLen(s, k) + Len(s[k + 1]) /\ Len(s[k + 1]) >= 1
    BY <1>1, <2>2 DEF Filled, Joined
  <2>4. Len(s[k + 1]) \in Nat
    <3>1. s[k + 1] \in Seq(S)
      BY <2>2 DEF Pieces
    <3>2. QED
      BY <3>1
  <2>5. QED
    BY <2>2, <2>3, <2>4
<1>4. \A k \in Nat : k \in P
  <2> HIDE DEF P
  <2>1. QED
    BY <1>2, <1>3, ByCondition!Inductive
<1>5. QED
  BY <1>4

LEMMA PiecesMade ==
  ASSUME NEW S, NEW n \in Nat, NEW s, s = [i \in 1..n |-> s[i]], \A i \in 1..n : s[i] \in Seq(S)
  PROVE  Pieces(s, S, n)
BY DEF Pieces

-----------------------------------------------------------------------------
(* Texts *)

LEMMA CharacterInts == Lost \in Int /\ Mark \in Int /\ Half \in Int /\ Zero \in Int
BY DEF Lost, Mark, Half, Zero

UnitsOf(s) == [i \in DOMAIN s |-> IF s[i] \in Astral THEN <<s[i], Half>> ELSE <<s[i]>>]

LEMMA UnitsFacts ==
  ASSUME NEW s \in Seq(Int)
  PROVE  /\ Units(s) \in Seq(Int) /\ Len(Units(s)) >= Len(s) /\ Len(Units(s)) \in Nat
         /\ (\A i \in 1..Len(s) : s[i] \notin Astral) => Units(s) = s
<1> DEFINE n == Len(s)  p == UnitsOf(s)
<1>1. n \in Nat /\ DOMAIN s = 1..n /\ \A i \in 1..n : s[i] \in Int
  BY SeqParts
<1>2. p = [i \in 1..n |-> p[i]]
  BY <1>1 DEF UnitsOf
<1>3. ASSUME NEW i \in 1..n PROVE p[i] \in Seq(Int) /\ Len(p[i]) >= 1
  <2>1. p[i] = IF s[i] \in Astral THEN <<s[i], Half>> ELSE <<s[i]>>
    BY <1>1 DEF UnitsOf
  <2>2. s[i] \in Int
    BY <1>1
  <2>3. <<s[i], Half>> \in Seq(Int) /\ <<s[i]>> \in Seq(Int) /\ Len(<<s[i], Half>>) = 2 /\ Len(<<s[i]>>) = 1
    BY <2>2, CharacterInts
  <2>4. QED
    BY <2>1, <2>3
<1>4. Units(s) = FlattenSeq(p)
  BY DEF Units, UnitsOf
<1> HIDE DEF p, n
<1>5. Pieces(p, Int, n)
  BY <1>1, <1>2, <1>3, PiecesMade
<1>6. /\ FlattenSeq(p) \in Seq(Int) /\ Len(FlattenSeq(p)) = JoinLen(p, n) /\ JoinLen(p, 0) = 0
      /\ \A k \in 0..(n - 1) : JoinLen(p, k + 1) = JoinLen(p, k) + Len(p[k + 1])
      /\ \A k \in 0..(n - 1) : \A j \in 1..Len(p[k + 1]) :
           FlattenSeq(p)[JoinLen(p, k) + j] = p[k + 1][j]
  BY <1>1, <1>5, JoinFacts DEF Joined
<1>7. JoinLen(p, n) >= n
  <2>1. Filled(p, n) /\ n \in 0..n
    BY <1>1, <1>3 DEF Filled
  <2>2. QED
    BY <1>1, <1>5, <2>1, PiecesCount
<1>8. ASSUME \A i \in 1..n : s[i] \notin Astral PROVE Units(s) = s
  <2>1. \A i \in 1..n : p[i] = <<s[i]>>
    BY <1>1, <1>8 DEF p, UnitsOf
  <2> DEFINE P == {k \in Nat : k <= n => JoinLen(p, k) = k}
  <2>2. 0 \in P
    BY <1>6
  <2>3. ASSUME NEW k \in Nat, k \in P PROVE k + 1 \in P
    <3>1. SUFFICES ASSUME k + 1 <= n PROVE JoinLen(p, k + 1) = k + 1
      OBVIOUS
    <3>2. k \in 0..(n - 1) /\ k + 1 \in 1..n /\ JoinLen(p, k) = k
      BY <1>1, <2>3, <3>1
    <3>3. Len(p[k + 1]) = 1
      <4>1. p[k + 1] = <<s[k + 1]>>
        BY <2>1, <3>2
      <4>2. QED
        BY <4>1
    <3>4. QED
      BY <1>6, <3>2, <3>3, Zenon
  <2>4. \A k \in Nat : k \in P
    <3> HIDE DEF P
    <3>1. QED
      BY <2>2, <2>3, ByCondition!Inductive, Zenon
  <2>5. \A k \in 0..n : JoinLen(p, k) = k
    BY <1>1, <2>4
  <2>6. ASSUME NEW k \in 0..(n - 1) PROVE Units(s)[k + 1] = s[k + 1]
    <3>1. k + 1 \in 1..n /\ k \in 0..n
      BY <1>1
    <3>2. p[k + 1] = <<s[k + 1]>> /\ JoinLen(p, k) = k
      BY <2>1, <2>5, <3>1
    <3>3. Len(p[k + 1]) = 1 /\ p[k + 1][1] = s[k + 1]
      BY <3>2
    <3>4. 1 \in 1..Len(p[k + 1])
      BY <3>3
    <3>5. FlattenSeq(p)[JoinLen(p, k) + 1] = p[k + 1][1]
      BY <1>6, <3>4
    <3>6. QED
      BY <1>4, <3>2, <3>3, <3>5
  <2>7. Len(Units(s)) = n /\ Units(s) \in Seq(Int)
    <3>1. n \in 0..n
      BY <1>1
    <3>2. QED
      BY <1>4, <1>6, <2>5, <3>1
  <2>8. ASSUME NEW i \in 1..n PROVE Units(s)[i] = s[i]
    <3>1. i - 1 \in 0..(n - 1) /\ (i - 1) + 1 = i
      BY <1>1
    <3>2. QED
      BY <2>6, <3>1
  <2>9. QED
    BY <2>7, <2>8, SeqEqual, Zenon DEF n
<1>9. QED
  BY <1>1, <1>4, <1>6, <1>7, <1>8 DEF n

LEMMA WideBytes ==
  ASSUME NEW s \in Seq(Int), ~ Compressed(s)
  PROVE  /\ TextBytes(s) \in Seq(Int) /\ Len(TextBytes(s)) = 2 * Len(s)
         /\ \A k \in 0..(Len(s) - 1) : TextBytes(s)[2 * k + 1] = Units(s)[k + 1]
<1> DEFINE n == Len(s)  p == [i \in DOMAIN s |-> <<Units(s)[i], Zero>>]
<1>1. n \in Nat /\ DOMAIN s = 1..n
  BY SeqParts
<1>2. Units(s) \in Seq(Int) /\ Len(Units(s)) >= n /\ Len(Units(s)) \in Nat
  BY UnitsFacts
<1>3. p = [i \in 1..n |-> p[i]]
  BY <1>1
<1>4. ASSUME NEW i \in 1..n
      PROVE  p[i] \in Seq(Int) /\ Len(p[i]) = 2 /\ p[i][1] = Units(s)[i]
  <2> DEFINE x == Units(s)[i]
  <2>1. i \in 1..Len(Units(s))
    BY <1>1, <1>2
  <2>2. x \in Int
    BY <1>2, <2>1
  <2>3. p[i] = <<x, Zero>>
    BY <1>1
  <2> HIDE DEF x, p
  <2>4. <<x, Zero>> \in Seq(Int) /\ Len(<<x, Zero>>) = 2 /\ <<x, Zero>>[1] = x
    BY <2>2, CharacterInts
  <2>5. QED
    BY <2>3, <2>4 DEF x
<1>5. TextBytes(s) = FlattenSeq(p)
  BY DEF TextBytes
<1> HIDE DEF n, p
<1>6. Pieces(p, Int, n) /\ Even(p, n, 2)
  <2>1. Pieces(p, Int, n)
    BY <1>1, <1>3, <1>4, PiecesMade, Zenon
  <2>2. QED
    BY <1>4, <2>1 DEF Even
<1>7. /\ FlattenSeq(p) \in Seq(Int) /\ Len(FlattenSeq(p)) = 2 * n
      /\ \A k \in 0..(n - 1) : FlattenSeq(p)[2 * k + 1] = p[k + 1][1]
  BY <1>1, <1>6, PairsJoin
<1>8. ASSUME NEW k \in 0..(n - 1) PROVE TextBytes(s)[2 * k + 1] = Units(s)[k + 1]
  <2>1. k + 1 \in 1..n
    BY <1>1
  <2>2. QED
    BY <1>4, <1>5, <1>7, <2>1
<1>9. QED
  BY <1>5, <1>7, <1>8 DEF n

LEMMA NarrowBytes ==
  ASSUME NEW s \in Seq(Int), Compressed(s)
  PROVE  /\ TextBytes(s) \in Seq(Int) /\ Len(TextBytes(s)) = Len(s) + 2 /\ Len(s) \in Nat
         /\ TextBytes(s)[1] = Mark /\ \A k \in 1..Len(s) : TextBytes(s)[k + 2] = s[k]
<1> DEFINE a == <<Mark, Zero>>
<1>1. a \in Seq(Int) /\ Len(a) = 2 /\ a[1] = Mark
  BY CharacterInts
<1> DEFINE c == TextBytes(s)
<1>2. c = a \o s
  BY DEF TextBytes
<1> HIDE DEF a, c
<1> DEFINE d == s
<1>3. a \in Seq(Int) /\ d \in Seq(Int) /\ c = a \o d
  BY <1>1, <1>2
<1> HIDE DEF d
<1>4. /\ c \in Seq(Int) /\ Len(c) = Len(a) + Len(d) /\ Len(d) \in Nat
      /\ \A j \in 1..Len(a) : c[j] = a[j]
      /\ \A j \in 1..Len(d) : c[Len(a) + j] = d[j]
  BY <1>3, ConcatParts
<1>5. 1 \in 1..Len(a)
  BY <1>1
<1>6. ASSUME NEW k \in 1..Len(d) PROVE c[k + 2] = d[k]
  <2>1. k + 2 = Len(a) + k
    BY <1>1, <1>4
  <2>2. QED
    BY <1>4, <2>1, Zenon
<1>7. QED
  BY <1>1, <1>4, <1>5, <1>6 DEF c, d

LEMMA TextBytesInts == \A s \in Seq(Int) : TextBytes(s) \in Seq(Int)
BY WideBytes, NarrowBytes

\* The parts of TextOf.
UnitsAt(b) == [i \in 1..(Len(b) \div 2) |-> b[2 * i - 1]]
TextEnd(u) == Max({0} \cup {i \in DOMAIN u : u[i] # Zero})
Splits(u, i) == u[i] \in Astral /\ (i = TextEnd(u) \/ u[i + 1] # Half)
Decoded(u) == [i \in 1..TextEnd(u) |-> IF Splits(u, i) THEN Lost ELSE u[i]]

LEMMA TextParts ==
  ASSUME NEW b
  PROVE  TextOf(b) = IF Len(b) >= 2 /\ b[1] = Mark THEN SubSeq(b, 3, Len(b))
                     ELSE Without(Decoded(UnitsAt(b)), {Half})
BY DEF TextOf, UnitsAt, TextEnd, Splits, Decoded

LEMMA EndFacts ==
  ASSUME NEW n \in Nat, NEW u \in [1..n -> Int]
  PROVE  /\ TextEnd(u) \in 0..n /\ \A i \in 1..n : u[i] # Zero => i <= TextEnd(u)
<1> DEFINE T == {0} \cup {i \in DOMAIN u : u[i] # Zero}
<1>1. T \subseteq 0..n /\ 0 \in T /\ \A i \in 1..n : u[i] # Zero => i \in T
  OBVIOUS
<1>2. IsFiniteSet(T)
  <2>1. IsFiniteSet(0..n)
    BY FS_Interval
  <2>2. QED
    BY <1>1, <2>1, FS_Subset
<1>3. TextEnd(u) = Max(T)
  BY DEF TextEnd
<1> HIDE DEF T
<1>4. T \subseteq Int /\ T # {}
  BY <1>1
<1>5. Max(T) \in T /\ \A m \in T : m <= Max(T)
  BY <1>2, <1>4, GreatestInt, Zenon
<1>6. QED
  BY <1>1, <1>3, <1>5, Zenon

LEMMA TextOfInts ==
  ASSUME NEW b \in Seq(Int)
  PROVE  TextOf(b) \in Seq(Int)
<1> DEFINE n == Len(b) \div 2  u == UnitsAt(b)
<1>1. Len(b) \in Nat /\ n \in Nat /\ \A i \in 1..Len(b) : b[i] \in Int
  BY SeqParts
<1>2. \A i \in 1..n : 2 * i - 1 \in 1..Len(b)
  BY <1>1
<1>3. u \in [1..n -> Int]
  BY <1>1, <1>2, Zenon DEF UnitsAt
<1>4. SubSeq(b, 3, Len(b)) \in Seq(Int)
  <2>1. ASSUME NEW i \in 3..Len(b) PROVE b[i] \in Int
    BY <1>1
  <2>2. QED
    BY <1>1, <2>1
<1>5. Decoded(u) \in Seq(Int)
  <2> HIDE DEF n, u
  <2> DEFINE e == TextEnd(u)
  <2>1. e \in 0..n
    BY <1>1, <1>3, EndFacts
  <2> HIDE DEF e
  <2>2. Decoded(u) = [i \in 1..e |-> IF Splits(u, i) THEN Lost ELSE u[i]]
    BY DEF Decoded, e
  <2>3. \A i \in 1..e : u[i] \in Int
    BY <1>1, <1>3, <2>1
  <2>4. QED
    BY <1>1, <2>1, <2>2, <2>3, CharacterInts
<1>6. Without(Decoded(u), {Half}) \in Seq(Int \ {Half})
  BY <1>5, WithoutSeq
<1>7. Without(Decoded(u), {Half}) \in Seq(Int)
  <2> DEFINE w == Without(Decoded(u), {Half})
  <2>1. w \in Seq(Int \ {Half})
    BY <1>6
  <2> HIDE DEF w
  <2>2. w \in Seq(Int)
    BY <2>1
  <2>3. QED
    BY <2>2 DEF w
<1>8. QED
  BY <1>4, <1>7, TextParts, Zenon

\* Texts that are read as they were written.
ExactText(s) == s # <<>> => /\ Range(s) \cap (Astral \cup {Half}) = {}
                            /\ s[1] # Mark /\ s[Len(s)] # Zero

LEMMA NarrowRoundTrip ==
  ASSUME NEW s \in Seq(Int), Compressed(s)
  PROVE  TextOf(TextBytes(s)) = s
<1> DEFINE b == TextBytes(s)  n == Len(s)  r == SubSeq(b, 3, Len(b))
<1>1. /\ b \in Seq(Int) /\ Len(b) = n + 2 /\ n \in Nat /\ b[1] = Mark
      /\ \A k \in 1..n : b[k + 2] = s[k]
  BY NarrowBytes
<1>2. TextOf(b) = r
  <2> HIDE DEF b
  <2>1. QED
    BY <1>1, TextParts
<1>3. r \in Seq(Int) /\ Len(r) = n /\ \A i \in 1..n : r[i] = b[i + 2]
  <2> HIDE DEF b, n
  <2>1. r = [i \in 1..n |-> b[i + 2]]
    BY <1>1
  <2>2. \A i \in 1..n : b[i + 2] \in Int
    BY <1>1
  <2>3. QED
    BY <1>1, <2>1, <2>2
<1>4. \A i \in 1..n : r[i] = s[i]
  BY <1>1, <1>3
<1>5. r = s
  <2> HIDE DEF r
  <2>1. QED
    BY <1>3, <1>4, SeqEqual, Zenon
<1>6. QED
  BY <1>2, <1>5

LEMMA WideRoundTrip ==
  ASSUME NEW s \in Seq(Int), ~ Compressed(s), ExactText(s)
  PROVE  TextOf(TextBytes(s)) = s
<1> DEFINE b == TextBytes(s)  n == Len(s)  u == UnitsAt(b)
<1>1. n \in Nat /\ DOMAIN s = 1..n /\ (\A i \in 1..n : s[i] \in Int) /\ (n = 0 <=> s = <<>>)
  BY SeqParts
<1>2. \A i \in 1..n : s[i] \notin Astral /\ s[i] # Half
  BY <1>1 DEF ExactText, Range
<1>3. Units(s) = s
  BY <1>2, UnitsFacts, Zenon
<1>4. Len(b) = 2 * n /\ \A k \in 0..(n - 1) : b[2 * k + 1] = s[k + 1]
  BY <1>3, WideBytes
<1>5. u = s
  <2>1. Len(b) \div 2 = n
    <3> DEFINE l == Len(b)
    <3>1. l = 2 * n /\ n \in Nat
      BY <1>1, <1>4
    <3> HIDE DEF l, n
    <3>2. l \div 2 = n
      BY <3>1
    <3>3. QED
      BY <3>2 DEF l
  <2>2. u = [i \in 1..n |-> b[2 * i - 1]]
    BY <2>1 DEF UnitsAt
  <2> HIDE DEF u, b, n
  <2>3. ASSUME NEW i \in 1..n PROVE b[2 * i - 1] = s[i]
    <3>1. i - 1 \in 0..(n - 1) /\ 2 * (i - 1) + 1 = 2 * i - 1 /\ (i - 1) + 1 = i
      BY <1>1
    <3>2. QED
      BY <1>4, <3>1
  <2>4. u = [i \in 1..n |-> s[i]]
    BY <2>2, <2>3
  <2>5. s = [i \in 1..n |-> s[i]]
    BY SeqParts DEF n
  <2>6. QED
    BY <2>4, <2>5
<1>6. ~ (Len(b) >= 2 /\ b[1] = Mark)
  <2> HIDE DEF b, u
  <2>1. CASE n = 0
    BY <1>4, <2>1
  <2>2. CASE n # 0
    <3>1. 0 \in 0..(n - 1) /\ 2 * 0 + 1 = 1 /\ 0 + 1 = 1
      BY <1>1, <2>2
    <3>2. b[1] = s[1]
      BY <1>4, <3>1
    <3>3. s[1] # Mark
      BY <1>1, <2>2 DEF ExactText
    <3>4. QED
      BY <3>2, <3>3
  <2>3. QED
    BY <2>1, <2>2
<1>7. TextEnd(s) = n
  <2>1. s \in [1..n -> Int]
    BY <1>1, SeqParts
  <2>2. TextEnd(s) \in 0..n /\ \A i \in 1..n : s[i] # Zero => i <= TextEnd(s)
    <3> HIDE DEF n
    <3>1. QED
      BY <1>1, <2>1, EndFacts
  <2>3. CASE n = 0
    BY <1>1, <2>2, <2>3
  <2>4. CASE n # 0
    <3>1. n \in 1..n /\ s[n] # Zero
      BY <1>1, <2>4 DEF ExactText
    <3>2. QED
      BY <1>1, <2>2, <3>1
  <2>5. QED
    BY <2>3, <2>4
<1>8. Decoded(s) = s
  <2> HIDE DEF n
  <2>1. \A i \in 1..n : ~ Splits(s, i)
    BY <1>2 DEF Splits
  <2>2. Decoded(s) = [i \in 1..n |-> s[i]]
    BY <1>7, <2>1 DEF Decoded
  <2>3. s = [i \in 1..n |-> s[i]]
    BY SeqParts DEF n
  <2>4. QED
    BY <2>2, <2>3
<1>9. Without(s, {Half}) = s
  <2>1. \A i \in 1..Len(s) : s[i] \notin {Half}
    BY <1>2
  <2>2. QED
    BY <2>1, WithoutNone
<1>10. TextOf(b) = Without(Decoded(u), {Half})
  <2> HIDE DEF b, u
  <2>1. QED
    BY <1>6, TextParts, Zenon DEF u
<1>11. QED
  BY <1>5, <1>8, <1>9, <1>10

\* What is written of a value in a column of variable length.
LEMMA VariableRoundTrip ==
  ASSUME NEW t \in Types, Variable(t), NEW v, IsValue(v)
  PROVE  /\ Written(t, v) \in Seq(Int)
         /\ v # Nil /\ IsExact(t, v) => Read(t, Written(t, v)) = Canonical(t, v)
<1>1. v.s \in Seq(Int)
  BY FixedKinds
<1>2. t \in {"Text", "Binary"} /\ (t = "Binary" => t # "Text")
  BY DEF Variable
<1>3. Written(t, v) = IF t = "Text" THEN TextBytes(v.s) ELSE v.s
  BY DEF Written
<1>4. Written(t, v) \in Seq(Int)
  BY <1>1, <1>3, TextBytesInts
<1>5. ASSUME v # Nil, IsExact(t, v) PROVE Read(t, Written(t, v)) = Canonical(t, v)
  <2>1. t = "Text" => ExactText(v.s)
    BY <1>5 DEF IsExact, ExactText
  <2>2. t = "Text" => TextOf(TextBytes(v.s)) = v.s
    BY <1>1, <2>1, NarrowRoundTrip, WideRoundTrip
  <2>3. Read(t, Written(t, v)) = [go |-> Native[t], s |-> IF t = "Text" THEN TextOf(Written(t, v)) ELSE Written(t, v)]
    BY DEF Read
  <2>4. QED
    BY <1>3, <1>5, <2>2, <2>3 DEF Canonical
<1>6. QED
  BY <1>4, <1>5

\* Whatever is read is a value, and a number where the column has one.
LEMMA ReadIsValue ==
  ASSUME NEW t \in Types, NEW b, Variable(t) => b \in Seq(Int), ~ Variable(t) => b \in Cells(t)
  PROVE  IsValue(Read(t, b)) /\ Read(t, b) # Nil /\ Read(t, b).go = Native[t]
<1>1. Native[t] # "nil" /\ (~ Variable(t) => Native[t] \notin {"nil", "string", "bytes"})
  BY KindTables
<1>2. Native[t] \notin {"nil", "string", "bytes"} \/ Variable(t)
  BY <1>1
<1>3. CASE Variable(t)
  <2> DEFINE x == IF t = "Text" THEN TextOf(b) ELSE b
  <2>1. x \in Seq(Int)
    BY <1>3, TextOfInts
  <2>2. Read(t, b) = [go |-> Native[t], s |-> x]
    BY <1>3 DEF Read
  <2>3. Native[t] \in {"string", "bytes"}
    BY <1>3 DEF Variable, Native
  <2> HIDE DEF x
  <2>4. QED
    BY <1>1, <2>1, <2>2, <2>3 DEF IsValue, Nil
<1>4. CASE ~ Variable(t)
  <2> DEFINE x == FromBytes(t, b)
  <2>1. x \in Int
    BY <1>4, FromBytesInt
  <2>2. Read(t, b) = [go |-> Native[t], s |-> <<x>>]
    BY <1>4 DEF Read, Value
  <2> HIDE DEF x
  <2>3. <<x>> \in Seq(Int) /\ Len(<<x>>) = 1
    BY <2>1
  <2>4. QED
    BY <1>1, <1>4, <2>2, <2>3 DEF IsValue, Nil
<1>5. QED
  BY <1>3, <1>4

\* A value that reads as it was written reads so again.
LEMMA CanonicalExact ==
  ASSUME NEW t \in Types, NEW v, IsValue(v), IsExact(t, v)
  PROVE  /\ IsValue(Canonical(t, v)) /\ IsExact(t, Canonical(t, v))
         /\ Canonical(t, Canonical(t, v)) = Canonical(t, v)
<1>1. CASE v = Nil
  BY <1>1 DEF Canonical
<1>2. CASE v # Nil
  <2> DEFINE w == [go |-> Native[t], s |-> v.s]
  <2>1. Canonical(t, v) = w /\ w.s = v.s /\ w.go = Native[t] /\ Number(w) = Number(v)
    BY <1>2 DEF Canonical, Number
  <2>2. /\ v.s \in Seq(Int) /\ Native[t] \in Exact[t] /\ Native[t] # "nil"
        /\ ~ Variable(t) => Native[t] \notin {"nil", "string", "bytes"}
        /\ Exact[t] \subseteq Writes[t]
        /\ ~ Variable(t) /\ v.go \in Writes[t] => Len(v.s) = 1
    BY FixedKinds
  <2>3. v.go \in Exact[t]
    BY <1>2 DEF IsExact
  <2>4. w # Nil
    BY <2>1, <2>2 DEF Nil
  <2>5. Variable(t) => Native[t] \in {"string", "bytes"}
    BY DEF Variable, Native
  <2>6. IsValue(w)
    <3> HIDE DEF w
    <3>1. w = [go |-> w.go, s |-> w.s]
      BY DEF w
    <3>2. QED
      BY <2>1, <2>2, <2>3, <2>5, <3>1 DEF IsValue
  <2>7. IsExact(t, w)
    <3> HIDE DEF w
    <3>1. QED
      BY <1>2, <2>1, <2>2 DEF IsExact
  <2>8. Canonical(t, w) = w
    BY <2>1, <2>4 DEF Canonical
  <2> HIDE DEF w
  <2>9. QED
    BY <2>1, <2>6, <2>7, <2>8
<1>3. QED
  BY <1>1, <1>2
-----------------------------------------------------------------------------
(* The parts of a row *)

\* x lies in r behind its first p elements.
Holds(r, x, p) == p + Len(x) <= Len(r) /\ \A j \in 1..Len(x) : r[p + j] = x[j]

Ends(c, a, b) == c = a \o b

LEMMA ConcatHolds ==
  ASSUME NEW S, NEW a \in Seq(S), NEW b \in Seq(S), NEW c, Ends(c, a, b)
  PROVE  /\ c \in Seq(S) /\ Len(c) = Len(a) + Len(b) /\ Len(a) \in Nat /\ Len(b) \in Nat
         /\ Holds(c, a, 0) /\ Holds(c, b, Len(a))
<1>1. /\ c \in Seq(S) /\ Len(c) = Len(a) + Len(b) /\ Len(a) \in Nat /\ Len(b) \in Nat
      /\ \A j \in 1..Len(a) : c[j] = a[j]
      /\ \A j \in 1..Len(b) : c[Len(a) + j] = b[j]
  BY ConcatParts DEF Ends
<1>2. Holds(c, a, 0)
  <2> DEFINE m == Len(a)
  <2>1. m \in Nat /\ 0 + m <= Len(c) /\ \A j \in 1..m : 0 + j = j
    BY <1>1
  <2>2. QED
    BY <1>1, <2>1 DEF Holds
<1>3. Holds(c, b, Len(a))
  BY <1>1 DEF Holds
<1>4. QED
  BY <1>1, <1>2, <1>3

LEMMA HoldsMore ==
  ASSUME NEW S, NEW a \in Seq(S), NEW b \in Seq(S), NEW c, Ends(c, a, b),
         NEW T, NEW x \in Seq(T), NEW p \in Nat, Holds(a, x, p)
  PROVE  Holds(c, x, p)
<1>1. /\ c \in Seq(S) /\ Len(c) = Len(a) + Len(b) /\ Len(a) \in Nat /\ Len(b) \in Nat
      /\ \A j \in 1..Len(a) : c[j] = a[j]
  BY ConcatParts DEF Ends
<1> DEFINE m == Len(x)  l == Len(a)
<1>2. m \in Nat /\ p + m <= l /\ \A j \in 1..m : a[p + j] = x[j]
  BY DEF Holds
<1>3. \A j \in 1..m : p + j \in 1..l
  <2> HIDE DEF m
  <2> HIDE DEF l
  <2>1. l \in Nat
    BY <1>1 DEF l
  <2>2. QED
    BY <1>2, <2>1
<1>4. \A j \in 1..m : c[p + j] = x[j]
  BY <1>1, <1>2, <1>3
<1>5. p + m <= Len(c)
  <2> HIDE DEF m
  <2>1. QED
    BY <1>1, <1>2
<1>6. QED
  BY <1>4, <1>5 DEF Holds

Spliced(r, a, b, c, d, e, f, g) == r = a \o b \o c \o d \o e \o f \o g

Joint(r, a, b, c, d, e, f, g) ==
  /\ a \in Seq(Int) /\ b \in Seq(Int) /\ c \in Seq(Int) /\ d \in Seq(Int)
  /\ e \in Seq(Int) /\ f \in Seq(Int) /\ g \in Seq(Int)
  /\ Spliced(r, a, b, c, d, e, f, g)

SevenBytes(r, a, b, c, d, e, f, g) ==
  /\ r \in Seq(Int)
  /\ Len(r) = Len(a) + Len(b) + Len(c) + Len(d) + Len(e) + Len(f) + Len(g)
  /\ Holds(r, b, Len(a)) /\ Holds(r, c, Len(a) + Len(b))
  /\ Holds(r, d, Len(a) + Len(b) + Len(c))
  /\ Holds(r, e, Len(a) + Len(b) + Len(c) + Len(d))
  /\ Holds(r, g, Len(a) + Len(b) + Len(c) + Len(d) + Len(e) + Len(f))

LEMMA SevenParts ==
  ASSUME NEW r, NEW a, NEW b, NEW c, NEW d, NEW e, NEW f, NEW g, Joint(r, a, b, c, d, e, f, g)
  PROVE  SevenBytes(r, a, b, c, d, e, f, g)
<1>0. /\ a \in Seq(Int) /\ b \in Seq(Int) /\ c \in Seq(Int) /\ d \in Seq(Int)
      /\ e \in Seq(Int) /\ f \in Seq(Int) /\ g \in Seq(Int)
  BY DEF Joint
<1>1. PICK p : Ends(p, a, b)
  BY Zenon DEF Ends
<1>2. /\ p \in Seq(Int) /\ Len(p) = Len(a) + Len(b) /\ Len(a) \in Nat /\ Len(b) \in Nat
      /\ Holds(p, b, Len(a))
  <2>1. a \in Seq(Int) /\ b \in Seq(Int)
    BY <1>0
  <2>2. /\ p \in Seq(Int) /\ Len(p) = Len(a) + Len(b) /\ Len(a) \in Nat /\ Len(b) \in Nat
        /\ Holds(p, b, Len(a))
    BY <1>1, <2>1, ConcatHolds
  <2>3. QED
    BY <2>2
<1>3. PICK q : Ends(q, p, c)
  BY Zenon DEF Ends
<1>4. /\ q \in Seq(Int) /\ Len(q) = Len(p) + Len(c) /\ Len(p) \in Nat /\ Len(c) \in Nat
      /\ Holds(q, c, Len(p))
      /\ Holds(q, b, Len(a))
  <2>1. p \in Seq(Int) /\ c \in Seq(Int)
    BY <1>0, <1>2
  <2>2. /\ q \in Seq(Int) /\ Len(q) = Len(p) + Len(c) /\ Len(p) \in Nat /\ Len(c) \in Nat
        /\ Holds(q, c, Len(p))
    BY <1>3, <2>1, ConcatHolds
  <2>3. Holds(q, b, Len(a))
    <3>1. Holds(p, b, Len(a)) /\ Len(a) \in Nat /\ b \in Seq(Int)
      BY <1>0, <1>2
    <3>2. QED
      BY <1>3, <2>1, <3>1, HoldsMore
  <2>4. QED
    BY <2>2, <2>3
<1>5. PICK u : Ends(u, q, d)
  BY Zenon DEF Ends
<1>6. /\ u \in Seq(Int) /\ Len(u) = Len(q) + Len(d) /\ Len(q) \in Nat /\ Len(d) \in Nat
      /\ Holds(u, d, Len(q))
      /\ Holds(u, c, Len(p))
      /\ Holds(u, b, Len(a))
  <2>1. q \in Seq(Int) /\ d \in Seq(Int)
    BY <1>0, <1>4
  <2>2. /\ u \in Seq(Int) /\ Len(u) = Len(q) + Len(d) /\ Len(q) \in Nat /\ Len(d) \in Nat
        /\ Holds(u, d, Len(q))
    BY <1>5, <2>1, ConcatHolds
  <2>3. Holds(u, c, Len(p))
    <3>1. Holds(q, c, Len(p)) /\ Len(p) \in Nat /\ c \in Seq(Int)
      BY <1>0, <1>2, <1>4
    <3>2. QED
      BY <1>5, <2>1, <3>1, HoldsMore
  <2>4. Holds(u, b, Len(a))
    <3>1. Holds(q, b, Len(a)) /\ Len(a) \in Nat /\ b \in Seq(Int)
      BY <1>0, <1>2, <1>4
    <3>2. QED
      BY <1>5, <2>1, <3>1, HoldsMore
  <2>5. QED
    BY <2>2, <2>3, <2>4
<1>7. PICK v : Ends(v, u, e)
  BY Zenon DEF Ends
<1>8. /\ v \in Seq(Int) /\ Len(v) = Len(u) + Len(e) /\ Len(u) \in Nat /\ Len(e) \in Nat
      /\ Holds(v, e, Len(u))
      /\ Holds(v, d, Len(q))
      /\ Holds(v, c, Len(p))
      /\ Holds(v, b, Len(a))
  <2>1. u \in Seq(Int) /\ e \in Seq(Int)
    BY <1>0, <1>6
  <2>2. /\ v \in Seq(Int) /\ Len(v) = Len(u) + Len(e) /\ Len(u) \in Nat /\ Len(e) \in Nat
        /\ Holds(v, e, Len(u))
    BY <1>7, <2>1, ConcatHolds
  <2>3. Holds(v, d, Len(q))
    <3>1. Holds(u, d, Len(q)) /\ Len(q) \in Nat /\ d \in Seq(Int)
      BY <1>0, <1>2, <1>4, <1>6
    <3>2. QED
      BY <1>7, <2>1, <3>1, HoldsMore
  <2>4. Holds(v, c, Len(p))
    <3>1. Holds(u, c, Len(p)) /\ Len(p) \in Nat /\ c \in Seq(Int)
      BY <1>0, <1>2, <1>4, <1>6
    <3>2. QED
      BY <1>7, <2>1, <3>1, HoldsMore
  <2>5. Holds(v, b, Len(a))
    <3>1. Holds(u, b, Len(a)) /\ Len(a) \in Nat /\ b \in Seq(Int)
      BY <1>0, <1>2, <1>4, <1>6
    <3>2. QED
      BY <1>7, <2>1, <3>1, HoldsMore
  <2>6. QED
    BY <2>2, <2>3, <2>4, <2>5
<1>9. PICK w : Ends(w, v, f)
  BY Zenon DEF Ends
<1>10. /\ w \in Seq(Int) /\ Len(w) = Len(v) + Len(f) /\ Len(v) \in Nat /\ Len(f) \in Nat
      /\ Holds(w, f, Len(v))
      /\ Holds(w, e, Len(u))
      /\ Holds(w, d, Len(q))
      /\ Holds(w, c, Len(p))
      /\ Holds(w, b, Len(a))
  <2>1. v \in Seq(Int) /\ f \in Seq(Int)
    BY <1>0, <1>8
  <2>2. /\ w \in Seq(Int) /\ Len(w) = Len(v) + Len(f) /\ Len(v) \in Nat /\ Len(f) \in Nat
        /\ Holds(w, f, Len(v))
    BY <1>9, <2>1, ConcatHolds
  <2>3. Holds(w, e, Len(u))
    <3>1. Holds(v, e, Len(u)) /\ Len(u) \in Nat /\ e \in Seq(Int)
      BY <1>0, <1>2, <1>4, <1>6, <1>8
    <3>2. QED
      BY <1>9, <2>1, <3>1, HoldsMore
  <2>4. Holds(w, d, Len(q))
    <3>1. Holds(v, d, Len(q)) /\ Len(q) \in Nat /\ d \in Seq(Int)
      BY <1>0, <1>2, <1>4, <1>6, <1>8
    <3>2. QED
      BY <1>9, <2>1, <3>1, HoldsMore
  <2>5. Holds(w, c, Len(p))
    <3>1. Holds(v, c, Len(p)) /\ Len(p) \in Nat /\ c \in Seq(Int)
      BY <1>0, <1>2, <1>4, <1>6, <1>8
    <3>2. QED
      BY <1>9, <2>1, <3>1, HoldsMore
  <2>6. Holds(w, b, Len(a))
    <3>1. Holds(v, b, Len(a)) /\ Len(a) \in Nat /\ b \in Seq(Int)
      BY <1>0, <1>2, <1>4, <1>6, <1>8
    <3>2. QED
      BY <1>9, <2>1, <3>1, HoldsMore
  <2>7. QED
    BY <2>2, <2>3, <2>4, <2>5, <2>6
<1>11. Ends(r, w, g)
  BY <1>1, <1>3, <1>5, <1>7, <1>9 DEF Ends, Joint, Spliced
<1>12. /\ r \in Seq(Int) /\ Len(r) = Len(w) + Len(g) /\ Len(w) \in Nat /\ Len(g) \in Nat
      /\ Holds(r, g, Len(w))
      /\ Holds(r, e, Len(u))
      /\ Holds(r, d, Len(q))
      /\ Holds(r, c, Len(p))
      /\ Holds(r, b, Len(a))
  <2>1. w \in Seq(Int) /\ g \in Seq(Int)
    BY <1>0, <1>10
  <2>2. /\ r \in Seq(Int) /\ Len(r) = Len(w) + Len(g) /\ Len(w) \in Nat /\ Len(g) \in Nat
        /\ Holds(r, g, Len(w))
    BY <1>11, <2>1, ConcatHolds
  <2>3. Holds(r, e, Len(u))
    <3>1. Holds(w, e, Len(u)) /\ Len(u) \in Nat /\ e \in Seq(Int)
      BY <1>0, <1>2, <1>4, <1>6, <1>8, <1>10
    <3>2. QED
      BY <1>11, <2>1, <3>1, HoldsMore
  <2>4. Holds(r, d, Len(q))
    <3>1. Holds(w, d, Len(q)) /\ Len(q) \in Nat /\ d \in Seq(Int)
      BY <1>0, <1>2, <1>4, <1>6, <1>8, <1>10
    <3>2. QED
      BY <1>11, <2>1, <3>1, HoldsMore
  <2>5. Holds(r, c, Len(p))
    <3>1. Holds(w, c, Len(p)) /\ Len(p) \in Nat /\ c \in Seq(Int)
      BY <1>0, <1>2, <1>4, <1>6, <1>8, <1>10
    <3>2. QED
      BY <1>11, <2>1, <3>1, HoldsMore
  <2>6. Holds(r, b, Len(a))
    <3>1. Holds(w, b, Len(a)) /\ Len(a) \in Nat /\ b \in Seq(Int)
      BY <1>0, <1>2, <1>4, <1>6, <1>8, <1>10
    <3>2. QED
      BY <1>11, <2>1, <3>1, HoldsMore
  <2>7. QED
    BY <2>2, <2>3, <2>4, <2>5, <2>6
<1>13. /\ Len(p) = Len(a) + Len(b) /\ Len(q) = Len(a) + Len(b) + Len(c)
       /\ Len(u) = Len(a) + Len(b) + Len(c) + Len(d)
       /\ Len(v) = Len(a) + Len(b) + Len(c) + Len(d) + Len(e)
       /\ Len(w) = Len(a) + Len(b) + Len(c) + Len(d) + Len(e) + Len(f)
       /\ Len(r) = Len(a) + Len(b) + Len(c) + Len(d) + Len(e) + Len(f) + Len(g)
  BY <1>2, <1>4, <1>6, <1>8, <1>10, <1>12
<1>14. QED
  BY <1>12, <1>13 DEF SevenBytes

\* The parts of BuildRow.
Area(C) == Max({0} \cup {C[i].off + Size[C[i].type] : i \in FixedCols(C)})
CellsAt(C, i) == (C[i].off + 1)..(C[i].off + Size[C[i].type])
Covering(C, vals, p) == {i \in {j \in FixedCols(C) : vals[j] # Nil} : p \in CellsAt(C, i)}
Cell(C, vals, p) ==
  LET at == Covering(C, vals, p)
  IN IF at = {} THEN 0
     ELSE Written(C[Max(at)].type, vals[Max(at)])[p - C[Max(at)].off]
FixedPart(C, vals) == [p \in 1..Area(C) |-> Cell(C, vals, p)]
DataPart(C, vals) == [k \in DOMAIN VarCols(C) |->
                        IF vals[VarCols(C)[k]] = Nil THEN <<>>
                        ELSE Written(C[VarCols(C)[k]].type, vals[VarCols(C)[k]])]
StartAt(C, vals, k) == 2 + Area(C) + JoinLen(DataPart(C, vals), k - 1)
StartsPart(C, vals) == Reverse([k \in DOMAIN VarCols(C) |-> U16(StartAt(C, vals, k))])
MaskPart(C, vals) == Mask({i \in DOMAIN C : vals[i] # Nil}, Len(C))

LEMMA RowSpliced ==
  ASSUME NEW C, NEW vals
  PROVE  Spliced(BuildRow(C, vals), U16(Len(C)), FixedPart(C, vals), FlattenSeq(DataPart(C, vals)),
                 U16(StartAt(C, vals, Len(VarCols(C)) + 1)), FlattenSeq(StartsPart(C, vals)),
                 U16(Len(VarCols(C))), MaskPart(C, vals))
<1>1. \A k : StartAt(C, vals, k) = 2 + Area(C) + Len(FlattenSeq(SubSeq(DataPart(C, vals), 1, k - 1)))
  BY DEF StartAt, JoinLen
<1>2. QED
  BY <1>1 DEF Spliced, BuildRow, FixedPart, Cell, Covering, CellsAt, Area, DataPart, StartsPart,
              MaskPart, VarCols, StartAt, JoinLen

\* Columns as a definition lays them out.
Columned(C) == Laid(C, Nat)
WellFormed(C, vals) == \A i \in DOMAIN C : IsValue(vals[i])

LEMMA ColumnFacts ==
  ASSUME NEW C, Columned(C)
  PROVE  /\ Len(C) \in Nat /\ DOMAIN C = 1..Len(C)
         /\ \A i \in 1..Len(C) : C[i].type \in Types /\ C[i].off \in Nat /\ Size[C[i].type] \in 0..8
         /\ FixedCols(C) \subseteq 1..Len(C) /\ IsFiniteSet(FixedCols(C))
         /\ \A i \in 1..Len(C) : i \in FixedCols(C) <=> ~ Variable(C[i].type)
<1> DEFINE n == Len(C)
<1>1. C \in Seq(ColumnSet(Nat))
  BY DEF Columned, Laid
<1>2. n \in Nat /\ DOMAIN C = 1..n /\ \A i \in 1..n : C[i] \in ColumnSet(Nat)
  BY <1>1, SeqParts
<1>3. \A i \in 1..n : C[i].type \in Types /\ C[i].off \in Nat
  BY <1>2, ColumnParts, Zenon
<1>4. \A i \in 1..n : Size[C[i].type] \in 0..8
  BY <1>3, KindTables
<1>5. FixedCols(C) \subseteq 1..n /\ \A i \in 1..n : i \in FixedCols(C) <=> ~ Variable(C[i].type)
  BY <1>2 DEF FixedCols
<1>6. IsFiniteSet(FixedCols(C))
  <2>1. IsFiniteSet(1..n)
    BY <1>2, FS_Interval
  <2>2. QED
    BY <1>5, <2>1, FS_Subset
<1>7. QED
  BY <1>2, <1>3, <1>4, <1>5, <1>6

LEMMA AreaFacts ==
  ASSUME NEW C, Columned(C)
  PROVE  /\ Area(C) \in Nat
         /\ \A i \in FixedCols(C) : C[i].off + Size[C[i].type] <= Area(C)
<1> DEFINE F == FixedCols(C)
           f == [i \in F |-> C[i].off + Size[C[i].type]]
           R == {C[i].off + Size[C[i].type] : i \in F}
           T == {0} \cup R
<1>1. IsFiniteSet(F) /\ \A i \in F : C[i].off + Size[C[i].type] \in Nat
  <2>1. IsFiniteSet(F) /\ F \subseteq 1..Len(C)
    BY ColumnFacts
  <2>2. ASSUME NEW i \in F PROVE C[i].off + Size[C[i].type] \in Nat
    <3>1. C[i].off \in Nat /\ Size[C[i].type] \in 0..8
      BY <2>1, ColumnFacts
    <3>2. QED
      BY <3>1
  <2>3. QED
    BY <2>1, <2>2
<1>2. f \in Surjection(F, R)
  BY DEF Surjection
<1>3. IsFiniteSet(R)
  <2> HIDE DEF f, F, R
  <2>1. QED
    BY <1>1, <1>2, FS_Surjection
<1>4. T \subseteq Int /\ T # {} /\ 0 \in T /\ \A i \in F : C[i].off + Size[C[i].type] \in T
  BY <1>1
<1>5. IsFiniteSet(T)
  <2> HIDE DEF R
  <2>1. IsFiniteSet({0})
    BY FS_Singleton
  <2>2. QED
    BY <1>3, <2>1, FS_Union, Zenon
<1>6. Area(C) = Max(T)
  BY DEF Area
<1> HIDE DEF T
<1>7. Max(T) \in T /\ \A m \in T : m <= Max(T)
  BY <1>4, <1>5, GreatestInt, Zenon
<1>8. Area(C) \in Nat
  <2> DEFINE x == Max(T)
  <2>1. x \in Int /\ 0 <= x
    BY <1>4, <1>7, Zenon
  <2> HIDE DEF x
  <2>2. x \in Nat
    BY <2>1
  <2>3. QED
    BY <1>6, <2>2 DEF x
<1>9. ASSUME NEW i \in F PROVE C[i].off + Size[C[i].type] <= Area(C)
  BY <1>4, <1>6, <1>7, Zenon
<1>10. QED
  BY <1>8, <1>9

\* The bytes of the fixed-length columns; of a column that no other overlaps, those of its value.
LEMMA CellFacts ==
  ASSUME NEW C, Columned(C), NEW vals, WellFormed(C, vals), NEW p \in 1..Area(C)
  PROVE  /\ Cell(C, vals, p) \in Int
         /\ \A i \in FixedCols(C) :
              Covering(C, vals, p) = {i} =>
                Cell(C, vals, p) = Written(C[i].type, vals[i])[p - C[i].off]
<1> DEFINE T == Covering(C, vals, p)
<1>1. T \subseteq FixedCols(C) /\ IsFiniteSet(T) /\ T \subseteq Int
  <2>1. T \subseteq FixedCols(C)
    BY DEF Covering
  <2>2. QED
    BY <2>1, ColumnFacts, FS_Subset
<1>2. T # {} => Max(T) \in T
  BY <1>1, GreatestInt
<1>3. ASSUME NEW i \in T PROVE Written(C[i].type, vals[i])[p - C[i].off] \in Int
  <2>1. i \in DOMAIN C /\ C[i].type \in Types /\ ~ Variable(C[i].type) /\ C[i].off \in Nat
        /\ Size[C[i].type] \in Nat
    BY <1>1, ColumnFacts
  <2>2. Written(C[i].type, vals[i]) \in Cells(C[i].type)
    BY <2>1, FixedInt DEF WellFormed
  <2>3. p - C[i].off \in 1..Size[C[i].type]
    BY <2>1, AreaFacts DEF Covering, CellsAt
  <2>4. QED
    BY <2>2, <2>3, Zenon DEF Cells
<1>4. Cell(C, vals, p) = IF T = {} THEN 0 ELSE Written(C[Max(T)].type, vals[Max(T)])[p - C[Max(T)].off]
  BY DEF Cell
<1> HIDE DEF T
<1>5. Cell(C, vals, p) \in Int
  BY <1>2, <1>3, <1>4
<1>6. \A i : T = {i} => Max(T) = i
  BY <1>2
<1>7. QED
  BY <1>4, <1>5, <1>6, Zenon DEF T

VarCount(C) == Len(VarCols(C))

LEMMA VarColFacts ==
  ASSUME NEW C, Columned(C)
  PROVE  /\ VarCount(C) \in Nat /\ DOMAIN VarCols(C) = 1..VarCount(C)
         /\ \A k \in 1..VarCount(C) : VarCols(C)[k] \in FixedCols(C) => FALSE
         /\ \A k \in 1..VarCount(C) : VarCols(C)[k] \in 1..Len(C)
         /\ \A i \in 1..Len(C) : Variable(C[i].type) =>
              C[i].off \in 0..(VarCount(C) - 1) /\ VarCols(C)[C[i].off + 1] = i
<1> DEFINE n == Len(C)  s == [i \in DOMAIN C |-> i]
<1>1. n \in Nat /\ DOMAIN C = 1..n
  BY ColumnFacts
<1> HIDE DEF n
<1>2. VarCols(C) \in Seq(1..n)
  BY <1>1, VarsFacts
<1>3. /\ VarCount(C) \in Nat /\ DOMAIN VarCols(C) = 1..VarCount(C)
      /\ \A k \in 1..VarCount(C) : VarCols(C)[k] \in 1..n
  BY <1>2, SeqParts, Zenon DEF VarCount
<1>4. \A k \in 1..VarCount(C) : VarCols(C)[k] \in FixedCols(C) => FALSE
  <2>1. s \in Seq(1..n)
    BY <1>1
  <2> DEFINE w == VarCols(C)
  <2>2. w = Without(s, FixedCols(C))
    BY DEF VarCols
  <2> HIDE DEF s, w
  <2>3. w \in Seq((1..n) \ FixedCols(C))
    BY <2>1, <2>2, WithoutSeq, Zenon
  <2>4. \A k \in 1..Len(w) : w[k] \in (1..n) \ FixedCols(C)
    BY <2>3, SeqParts
  <2>5. QED
    BY <2>4 DEF w, VarCount
<1>5. ASSUME NEW i \in 1..n, Variable(C[i].type)
      PROVE  C[i].off \in 0..(VarCount(C) - 1) /\ VarCols(C)[C[i].off + 1] = i
  <2>1. C[i].off = VarsBefore(C, i)
    BY <1>1, <1>5 DEF Columned, Laid
  <2>2. VarsBefore(C, i) \in 0..(Len(VarCols(C)) - 1) /\ VarCols(C)[VarsBefore(C, i) + 1] = i
    BY <1>1, <1>5, VarsFacts
  <2>3. QED
    BY <2>1, <2>2 DEF VarCount
<1>6. QED
  BY <1>3, <1>4, <1>5 DEF n

\* What is written for the column that is the k-th of variable length.
Datum(C, vals, i) == IF vals[i] = Nil THEN <<>> ELSE Written(C[i].type, vals[i])

LEMMA DataFacts ==
  ASSUME NEW C, Columned(C), NEW vals, WellFormed(C, vals)
  PROVE  /\ Pieces(DataPart(C, vals), Int, VarCount(C))
         /\ \A k \in 1..VarCount(C) : DataPart(C, vals)[k] = Datum(C, vals, VarCols(C)[k])
<1> DEFINE d == DataPart(C, vals)  n == VarCount(C)
<1>1. n \in Nat /\ DOMAIN VarCols(C) = 1..n
  BY VarColFacts
<1>2. d = [k \in 1..n |-> d[k]] /\ \A k \in 1..n : d[k] = Datum(C, vals, VarCols(C)[k])
  BY <1>1 DEF DataPart, Datum
<1>3. ASSUME NEW k \in 1..n PROVE d[k] \in Seq(Int)
  <2> DEFINE i == VarCols(C)[k]
  <2>1. i \in 1..Len(C) /\ i \notin FixedCols(C)
    BY VarColFacts
  <2>2. i \in DOMAIN C /\ C[i].type \in Types /\ Variable(C[i].type)
    BY <2>1, ColumnFacts
  <2>3. Written(C[i].type, vals[i]) \in Seq(Int)
    BY <2>2, VariableRoundTrip DEF WellFormed
  <2>4. <<>> \in Seq(Int)
    OBVIOUS
  <2>5. d[k] = Datum(C, vals, i)
    BY <1>2
  <2>6. QED
    BY <2>3, <2>4, <2>5 DEF Datum
<1> HIDE DEF d, n
<1>4. Pieces(d, Int, n)
  BY <1>1, <1>2, <1>3, PiecesMade, Zenon
<1>5. QED
  BY <1>2, <1>4 DEF d, n

LEMMA StartFacts ==
  ASSUME NEW C, Columned(C), NEW vals, WellFormed(C, vals)
  PROVE  /\ \A k \in 0..VarCount(C) : StartAt(C, vals, k + 1) \in Nat
         /\ StartAt(C, vals, VarCount(C) + 1) = 2 + Area(C) + Len(FlattenSeq(DataPart(C, vals)))
         /\ FlattenSeq(DataPart(C, vals)) \in Seq(Int)
         /\ \A k \in 0..(VarCount(C) - 1) :
              /\ StartAt(C, vals, k + 2) = StartAt(C, vals, k + 1) + Len(DataPart(C, vals)[k + 1])
              /\ StartAt(C, vals, k + 2) <= 2 + Area(C) + Len(FlattenSeq(DataPart(C, vals)))
              /\ \A j \in 1..Len(DataPart(C, vals)[k + 1]) :
                   FlattenSeq(DataPart(C, vals))[(StartAt(C, vals, k + 1) - (2 + Area(C))) + j]
                     = DataPart(C, vals)[k + 1][j]
<1> DEFINE d == DataPart(C, vals)  n == VarCount(C)  a == 2 + Area(C)  J(k) == JoinLen(d, k)
           S(k) == StartAt(C, vals, k)
<1>1. n \in Nat /\ a \in Nat /\ Pieces(d, Int, n)
  BY VarColFacts, AreaFacts, DataFacts
<1>2. \A k \in 0..n : S(k + 1) = a + J(k)
  <2>1. \A k \in 0..n : (k + 1) - 1 = k
    BY <1>1
  <2>2. QED
    BY <2>1 DEF StartAt
<1>3. /\ FlattenSeq(d) \in Seq(Int) /\ Len(FlattenSeq(d)) = JoinLen(d, n) /\ Joined(d, n)
  <2> HIDE DEF d, n
  <2>1. QED
    BY <1>1, JoinFacts
<1> HIDE DEF d, n, a, S
<1>4. \A k \in 0..n : J(k) \in Nat /\ J(k) <= J(n)
  BY <1>3 DEF Joined
<1>5. ASSUME NEW k \in 0..n PROVE S(k + 1) \in Nat
  <2> DEFINE x == J(k)
  <2>1. S(k + 1) = a + x /\ x \in Nat
    BY <1>2, <1>4
  <2> HIDE DEF x
  <2>2. QED
    BY <1>1, <2>1
<1>6. S(n + 1) = a + Len(FlattenSeq(d))
  BY <1>1, <1>2, <1>3
<1>7. ASSUME NEW k \in 0..(n - 1)
      PROVE  /\ S(k + 2) = S(k + 1) + Len(d[k + 1])
             /\ S(k + 2) <= a + Len(FlattenSeq(d))
             /\ \A j \in 1..Len(d[k + 1]) : FlattenSeq(d)[(S(k + 1) - a) + j] = d[k + 1][j]
  <2>1. k \in 0..n /\ k + 1 \in 0..n /\ k + 1 \in 1..n /\ (k + 1) + 1 = k + 2
    BY <1>1
  <2>2. S(k + 1) = a + J(k) /\ S(k + 2) = a + J(k + 1)
    BY <1>2, <2>1
  <2>3. J(k) \in Nat /\ J(k + 1) \in Nat /\ J(k + 1) <= J(n)
    BY <1>4, <2>1
  <2>4. J(k + 1) = J(k) + Len(d[k + 1])
    BY <1>3, <2>1 DEF Joined
  <2>5. Len(d[k + 1]) \in Nat
    <3>1. d[k + 1] \in Seq(Int)
      BY <1>1, <2>1 DEF Pieces
    <3>2. QED
      BY <3>1, SeqParts
  <2>6. S(k + 1) - a = J(k)
    <3> DEFINE x == J(k)
    <3> HIDE DEF J
    <3>1. QED
      BY <1>1, <2>2, <2>3
  <2>7. \A j \in 1..Len(d[k + 1]) : FlattenSeq(d)[J(k) + j] = d[k + 1][j]
    BY <1>3, <2>1 DEF Joined
  <2>8. S(k + 2) = S(k + 1) + Len(d[k + 1]) /\ S(k + 2) <= a + J(n)
    <3> DEFINE x == J(k)  y == J(k + 1)  z == J(n)  l == Len(d[k + 1])  u == S(k + 1)  v == S(k + 2)
    <3>1. /\ x \in Nat /\ y \in Nat /\ z \in Nat /\ l \in Nat /\ y <= z
          /\ y = x + l /\ u = a + x /\ v = a + y
      <4>1. n \in 0..n
        BY <1>1
      <4>2. QED
        BY <1>4, <2>2, <2>3, <2>4, <2>5, <4>1
    <3> HIDE DEF x, y, z, l, u, v
    <3>2. v = u + l /\ v <= a + z
      BY <1>1, <3>1
    <3>3. QED
      BY <3>2 DEF u, v, l, z
  <2>9. QED
    BY <1>3, <2>6, <2>7, <2>8
<1>8. QED
  BY <1>3, <1>5, <1>6, <1>7 DEF d, n, a, S
-----------------------------------------------------------------------------
(* The bits of a row's mask *)

LEMMA EightBits ==
  ASSUME NEW a \in 0..1, NEW b \in 0..1, NEW c \in 0..1, NEW d \in 0..1,
         NEW e \in 0..1, NEW f \in 0..1, NEW g \in 0..1, NEW h \in 0..1
  PROVE  LET s == a + 2 * b + 4 * c + 8 * d + 16 * e + 32 * f + 64 * g + 128 * h
         IN /\ (s \div 1) % 2 = a /\ (s \div 2) % 2 = b /\ (s \div 4) % 2 = c /\ (s \div 8) % 2 = d
            /\ (s \div 16) % 2 = e /\ (s \div 32) % 2 = f /\ (s \div 64) % 2 = g /\ (s \div 128) % 2 = h
<1> DEFINE s == a + 2 * b + 4 * c + 8 * d + 16 * e + 32 * f + 64 * g + 128 * h
<1>1. s \div 1 = s /\ s % 2 = a
  OBVIOUS
<1>2. s \div 2 = b + 2 * c + 4 * d + 8 * e + 16 * f + 32 * g + 64 * h
  OBVIOUS
<1>3. s \div 4 = c + 2 * d + 4 * e + 8 * f + 16 * g + 32 * h
  OBVIOUS
<1>4. s \div 8 = d + 2 * e + 4 * f + 8 * g + 16 * h
  OBVIOUS
<1>5. s \div 16 = e + 2 * f + 4 * g + 8 * h
  OBVIOUS
<1>6. s \div 32 = f + 2 * g + 4 * h
  OBVIOUS
<1>7. s \div 64 = g + 2 * h
  OBVIOUS
<1>8. s \div 128 = h
  OBVIOUS
<1>9. /\ (b + 2 * c + 4 * d + 8 * e + 16 * f + 32 * g + 64 * h) % 2 = b
      /\ (c + 2 * d + 4 * e + 8 * f + 16 * g + 32 * h) % 2 = c
      /\ (d + 2 * e + 4 * f + 8 * g + 16 * h) % 2 = d
      /\ (e + 2 * f + 4 * g + 8 * h) % 2 = e
      /\ (f + 2 * g + 4 * h) % 2 = f /\ (g + 2 * h) % 2 = g /\ h % 2 = h
  OBVIOUS
<1> HIDE DEF s
<1>10. QED
  BY <1>1, <1>2, <1>3, <1>4, <1>5, <1>6, <1>7, <1>8, <1>9 DEF s

\* The columns of B that byte j of a mask stands for, and those among its first m.
InByte(B, j) == {i \in B : (i - 1) \div 8 = j - 1}
FirstBits(B, j, m) == {i \in InByte(B, j) : i <= 8 * (j - 1) + m}
Bit == [i \in Nat |-> ColumnBit(i)]
BitSum(B, j, m) == SumOf(Bit, FirstBits(B, j, m))
\* What the column of bit m of byte j adds to it.
Share(B, j, m) == IF 8 * (j - 1) + m + 1 \in B THEN ColumnBit(8 * (j - 1) + m + 1) ELSE 0

LEMMA ColumnBits ==
  ASSUME NEW j \in Nat \ {0}
  PROVE  LET o == 8 * (j - 1)
         IN /\ o \in Nat
            /\ ColumnBit(o + 1) = 1 /\ ColumnBit(o + 2) = 2 /\ ColumnBit(o + 3) = 4 /\ ColumnBit(o + 4) = 8
            /\ ColumnBit(o + 5) = 16 /\ ColumnBit(o + 6) = 32 /\ ColumnBit(o + 7) = 64
            /\ ColumnBit(o + 8) = 128
<1> DEFINE o == 8 * (j - 1)  w == <<1, 2, 4, 8, 16, 32, 64, 128>>
<1>1. o \in Nat
  OBVIOUS
<1>2. ASSUME NEW m \in 0..7 PROVE ColumnBit(o + m + 1) = w[m + 1]
  <2>1. ((o + m + 1) - 1) % 8 = m
    OBVIOUS
  <2>2. QED
    BY <2>1 DEF ColumnBit
<1>3. /\ ColumnBit(o + 0 + 1) = w[0 + 1] /\ ColumnBit(o + 1 + 1) = w[1 + 1] /\ ColumnBit(o + 2 + 1) = w[2 + 1]
      /\ ColumnBit(o + 3 + 1) = w[3 + 1] /\ ColumnBit(o + 4 + 1) = w[4 + 1] /\ ColumnBit(o + 5 + 1) = w[5 + 1]
      /\ ColumnBit(o + 6 + 1) = w[6 + 1] /\ ColumnBit(o + 7 + 1) = w[7 + 1]
  <2> HIDE DEF o, w
  <2>1. QED
    BY <1>2
<1>4. /\ o + 0 + 1 = o + 1 /\ o + 1 + 1 = o + 2 /\ o + 2 + 1 = o + 3 /\ o + 3 + 1 = o + 4
      /\ o + 4 + 1 = o + 5 /\ o + 5 + 1 = o + 6 /\ o + 6 + 1 = o + 7 /\ o + 7 + 1 = o + 8
  <2> HIDE DEF o
  <2>1. QED
    BY <1>1
<1>5. /\ w[0 + 1] = 1 /\ w[1 + 1] = 2 /\ w[2 + 1] = 4 /\ w[3 + 1] = 8 /\ w[4 + 1] = 16
      /\ w[5 + 1] = 32 /\ w[6 + 1] = 64 /\ w[7 + 1] = 128
  OBVIOUS
<1> HIDE DEF o, w
<1>6. QED
  BY <1>1, <1>3, <1>4, <1>5 DEF o

LEMMA BitStep ==
  ASSUME NEW B, B \subseteq Nat \ {0}, NEW j \in Nat \ {0}, NEW m \in 0..7
  PROVE  BitSum(B, j, m + 1) = BitSum(B, j, m) + Share(B, j, m)
<1> DEFINE o == 8 * (j - 1)  i == o + m + 1  F == FirstBits(B, j, m)  G == FirstBits(B, j, m + 1)
<1>1. o \in Nat /\ i \in Nat /\ (i - 1) \div 8 = j - 1
  OBVIOUS
<1>2. i \notin F
  BY DEF FirstBits
<1>3. G = IF i \in B THEN F \cup {i} ELSE F
  <2>1. \A k \in InByte(B, j) : k \in Nat
    BY DEF InByte
  <2>2. i \in B => i \in InByte(B, j)
    BY <1>1 DEF InByte
  <2>3. i \notin B => i \notin InByte(B, j)
    BY DEF InByte
  <2> HIDE DEF o
  <2>4. \A k \in Nat : k <= o + (m + 1) <=> k <= o + m \/ k = i
    BY <1>1
  <2>5. F = {k \in InByte(B, j) : k <= o + m} /\ G = {k \in InByte(B, j) : k <= o + (m + 1)}
    BY DEF FirstBits, o
  <2> HIDE DEF F, G, i
  <2>6. QED
    BY <2>1, <2>2, <2>3, <2>4, <2>5
<1>4. F \subseteq 0..(o + m) /\ IsFiniteSet(F)
  <2>1. F \subseteq 0..(o + m)
    <3>1. \A k \in F : k \in Nat /\ k <= o + m
      BY DEF FirstBits, InByte
    <3> HIDE DEF F, o
    <3>2. QED
      BY <1>1, <3>1
  <2> DEFINE x == o + m
  <2>2. x \in Int /\ 0 \in Int
    BY <1>1
  <2> HIDE DEF x
  <2>3. IsFiniteSet(0..x)
    BY <2>2, FS_Interval
  <2>4. QED
    BY <2>1, <2>3, FS_Subset DEF x
<1>5. \A k \in Nat : Bit[k] = ColumnBit(k) /\ Bit[k] \in Int
  BY DEF Bit, ColumnBit
<1>6. F \subseteq Nat
  BY <1>1, <1>4
<1> HIDE DEF F, G, i, o
<1>7. SumOf(Bit, F) \in Int
  BY <1>4, <1>5, <1>6, SumInt, Zenon
<1>8. CASE i \in B
  <2>1. \A y \in F \cup {i} : Bit[y] \in Int
    BY <1>1, <1>5, <1>6
  <2>2. SumOf(Bit, F \cup {i}) = Bit[i] + SumOf(Bit, F)
    BY <1>2, <1>4, <2>1, SumMore
  <2>3. Bit[i] = ColumnBit(i) /\ Bit[i] \in Int
    BY <1>1, <1>5
  <2>4. SumOf(Bit, G) = SumOf(Bit, F) + ColumnBit(i)
    BY <1>3, <1>7, <1>8, <2>2, <2>3
  <2>5. QED
    BY <1>8, <2>4 DEF F, G, i, o, BitSum, Share
<1>9. CASE i \notin B
  <2>1. SumOf(Bit, G) = SumOf(Bit, F) + 0
    BY <1>3, <1>7, <1>9
  <2>2. QED
    BY <1>9, <2>1 DEF F, G, i, o, BitSum, Share
<1>10. QED
  BY <1>8, <1>9

LEMMA ByteOfMask ==
  ASSUME NEW B, B \subseteq Nat \ {0}, NEW j \in Nat \ {0}
  PROVE  BitSum(B, j, 0) = 0 /\ BitSum(B, j, 8) = SumOf(Bit, InByte(B, j))
<1> DEFINE o == 8 * (j - 1)
<1>1. \A k \in B : k \in Nat \ {0} /\ ((k - 1) \div 8 = j - 1 => k > o /\ k <= o + 8)
  <2>1. SUFFICES ASSUME NEW k \in Nat \ {0}, (k - 1) \div 8 = j - 1 PROVE k > o /\ k <= o + 8
    OBVIOUS
  <2> DEFINE x == k - 1
  <2>2. x \in Nat /\ x \div 8 = j - 1
    BY <2>1
  <2> HIDE DEF x
  <2>3. x >= 8 * (j - 1) /\ x < 8 * (j - 1) + 8
    BY <2>2
  <2>4. QED
    BY <2>3 DEF x
<1>2. FirstBits(B, j, 0) = {}
  <2>1. \A k \in InByte(B, j) : ~ (k <= 8 * (j - 1) + 0)
    BY <1>1 DEF InByte
  <2>2. QED
    BY <2>1 DEF FirstBits
<1>3. FirstBits(B, j, 8) = InByte(B, j)
  BY <1>1, Zenon DEF FirstBits, InByte
<1>4. QED
  BY <1>2, <1>3, SumEmpty DEF BitSum

\* Bit m of y, the byte j of a mask, tells whether its column is one of B.
Tells(y, j, m, B) ==
  (y \div ColumnBit(8 * (j - 1) + m + 1)) % 2 = 1 <=> 8 * (j - 1) + m + 1 \in B

LEMMA MaskBits ==
  ASSUME NEW B, B \subseteq Nat \ {0}, NEW j \in Nat \ {0}
  PROVE  /\ SumOf(Bit, InByte(B, j)) \in Int
         /\ \A m \in 0..7 : Tells(SumOf(Bit, InByte(B, j)), j, m, B)
<1> DEFINE o == 8 * (j - 1)
           S(m) == BitSum(B, j, m)
           In(i) == IF i \in B THEN 1 ELSE 0
           y == SumOf(Bit, InByte(B, j))
<1>1. S(0) = 0 /\ S(8) = y
  BY ByteOfMask, Zenon
<1>2. ASSUME NEW m \in 0..7
      PROVE  S(m + 1) = S(m) + (IF o + m + 1 \in B THEN ColumnBit(o + m + 1) ELSE 0)
  <2>1. BitSum(B, j, m + 1) = BitSum(B, j, m) + Share(B, j, m)
    BY BitStep, Zenon
  <2>2. QED
    BY <2>1 DEF Share
<1>3. /\ o \in Nat
      /\ ColumnBit(o + 1) = 1 /\ ColumnBit(o + 2) = 2 /\ ColumnBit(o + 3) = 4 /\ ColumnBit(o + 4) = 8
      /\ ColumnBit(o + 5) = 16 /\ ColumnBit(o + 6) = 32 /\ ColumnBit(o + 7) = 64
      /\ ColumnBit(o + 8) = 128
  BY ColumnBits
<1> HIDE DEF S, o, y
<1>4. /\ o + 0 + 1 = o + 1 /\ o + 1 + 1 = o + 2 /\ o + 2 + 1 = o + 3 /\ o + 3 + 1 = o + 4
      /\ o + 4 + 1 = o + 5 /\ o + 5 + 1 = o + 6 /\ o + 6 + 1 = o + 7 /\ o + 7 + 1 = o + 8
  BY <1>3
<1>5. \A i : In(i) \in 0..1 /\ (In(i) = 1 <=> i \in B)
  OBVIOUS
<1>6. /\ S(0 + 1) = S(0) + (IF o + 0 + 1 \in B THEN ColumnBit(o + 0 + 1) ELSE 0)
      /\ S(1 + 1) = S(1) + (IF o + 1 + 1 \in B THEN ColumnBit(o + 1 + 1) ELSE 0)
      /\ S(2 + 1) = S(2) + (IF o + 2 + 1 \in B THEN ColumnBit(o + 2 + 1) ELSE 0)
      /\ S(3 + 1) = S(3) + (IF o + 3 + 1 \in B THEN ColumnBit(o + 3 + 1) ELSE 0)
      /\ S(4 + 1) = S(4) + (IF o + 4 + 1 \in B THEN ColumnBit(o + 4 + 1) ELSE 0)
      /\ S(5 + 1) = S(5) + (IF o + 5 + 1 \in B THEN ColumnBit(o + 5 + 1) ELSE 0)
      /\ S(6 + 1) = S(6) + (IF o + 6 + 1 \in B THEN ColumnBit(o + 6 + 1) ELSE 0)
      /\ S(7 + 1) = S(7) + (IF o + 7 + 1 \in B THEN ColumnBit(o + 7 + 1) ELSE 0)
  BY <1>2
<1>7. /\ 0 + 1 = 1 /\ 1 + 1 = 2 /\ 2 + 1 = 3 /\ 3 + 1 = 4 /\ 4 + 1 = 5 /\ 5 + 1 = 6 /\ 6 + 1 = 7 /\ 7 + 1 = 8
  OBVIOUS
<1>8. /\ S(1) = 0 + 1 * In(o + 1) /\ S(2) = S(1) + 2 * In(o + 2) /\ S(3) = S(2) + 4 * In(o + 3)
      /\ S(4) = S(3) + 8 * In(o + 4) /\ S(5) = S(4) + 16 * In(o + 5) /\ S(6) = S(5) + 32 * In(o + 6)
      /\ S(7) = S(6) + 64 * In(o + 7) /\ S(8) = S(7) + 128 * In(o + 8)
  <2>1. \A i : \A c \in Int : c * In(i) = IF i \in B THEN c ELSE 0
    OBVIOUS
  <2> HIDE DEF In
  <2>2. QED
    BY <1>1, <1>3, <1>4, <1>6, <1>7, <2>1
<1> DEFINE a == In(o + 1)  b == In(o + 2)  c == In(o + 3)  d == In(o + 4)
           e == In(o + 5)  f == In(o + 6)  g == In(o + 7)  h == In(o + 8)
<1>9. /\ a \in 0..1 /\ b \in 0..1 /\ c \in 0..1 /\ d \in 0..1
      /\ e \in 0..1 /\ f \in 0..1 /\ g \in 0..1 /\ h \in 0..1
  BY <1>5
<1>10. y = a + 2 * b + 4 * c + 8 * d + 16 * e + 32 * f + 64 * g + 128 * h
  <2> HIDE DEF In, a, b, c, d, e, f, g, h
  <2>1. /\ S(1) = a /\ S(2) = S(1) + 2 * b /\ S(3) = S(2) + 4 * c /\ S(4) = S(3) + 8 * d
        /\ S(5) = S(4) + 16 * e /\ S(6) = S(5) + 32 * f /\ S(7) = S(6) + 64 * g /\ S(8) = S(7) + 128 * h
    BY <1>8, <1>9 DEF a, b, c, d, e, f, g, h
  <2>2. QED
    BY <1>1, <1>9, <2>1
<1>11. /\ (y \div 1) % 2 = a /\ (y \div 2) % 2 = b /\ (y \div 4) % 2 = c /\ (y \div 8) % 2 = d
       /\ (y \div 16) % 2 = e /\ (y \div 32) % 2 = f /\ (y \div 64) % 2 = g /\ (y \div 128) % 2 = h
  <2> HIDE DEF a, b, c, d, e, f, g, h
  <2>1. QED
    BY <1>9, <1>10, EightBits
<1>12. /\ (b = 1 <=> o + 2 \in B) /\ (c = 1 <=> o + 3 \in B) /\ (d = 1 <=> o + 4 \in B)
       /\ (e = 1 <=> o + 5 \in B) /\ (f = 1 <=> o + 6 \in B) /\ (g = 1 <=> o + 7 \in B)
       /\ (h = 1 <=> o + 8 \in B) /\ (a = 1 <=> o + 1 \in B)
  BY <1>5
<1>13. y \in Int
  <2> HIDE DEF a, b, c, d, e, f, g, h
  <2>1. QED
    BY <1>9, <1>10
<1>14. ASSUME NEW m \in 0..7 PROVE (y \div ColumnBit(o + m + 1)) % 2 = 1 <=> o + m + 1 \in B
  <2> HIDE DEF a, b, c, d, e, f, g, h
  <2>1. CASE m = 0
    BY <1>3, <1>4, <1>11, <1>12, <2>1
  <2>2. CASE m = 1
    BY <1>3, <1>4, <1>11, <1>12, <2>2
  <2>3. CASE m = 2
    BY <1>3, <1>4, <1>11, <1>12, <2>3
  <2>4. CASE m = 3
    BY <1>3, <1>4, <1>11, <1>12, <2>4
  <2>5. CASE m = 4
    BY <1>3, <1>4, <1>11, <1>12, <2>5
  <2>6. CASE m = 5
    BY <1>3, <1>4, <1>11, <1>12, <2>6
  <2>7. CASE m = 6
    BY <1>3, <1>4, <1>11, <1>12, <2>7
  <2>8. CASE m = 7
    BY <1>3, <1>4, <1>11, <1>12, <2>8
  <2>9. QED
    BY <2>1, <2>2, <2>3, <2>4, <2>5, <2>6, <2>7, <2>8
<1>15. \A m \in 0..7 : Tells(y, j, m, B)
  BY <1>14 DEF Tells, o
<1>16. QED
  BY <1>13, <1>15 DEF y

LEMMA MaskFacts ==
  ASSUME NEW n \in Nat, NEW B, B \subseteq 1..n
  PROVE  /\ Mask(B, n) \in Seq(Int) /\ Len(Mask(B, n)) = MaskLen(n) /\ MaskLen(n) \in Nat
         /\ \A i \in 1..n : /\ ((i - 1) \div 8) + 1 \in 1..MaskLen(n)
                            /\ (Mask(B, n)[((i - 1) \div 8) + 1] \div ColumnBit(i)) % 2 = 1 <=> i \in B
<1> DEFINE l == MaskLen(n)  M == Mask(B, n)
<1>1. l \in Nat
  BY DEF MaskLen
<1>2. B \subseteq Nat \ {0}
  OBVIOUS
<1>3. ASSUME NEW j \in 1..l
      PROVE  MapThenSumSet(LAMBDA i : ColumnBit(i), {i \in B : (i - 1) \div 8 = j - 1})
               = SumOf(Bit, InByte(B, j))
  <2> DEFINE T == InByte(B, j)
             f == [i \in T |-> ColumnBit(i)]
  <2>1. MapThenSumSet(LAMBDA i : ColumnBit(i), T) = MapThenSumSet(LAMBDA i : f[i], T)
    BY Zenon DEF MapThenSumSet, MapThenFoldSet
  <2>2. T \subseteq 1..n /\ IsFiniteSet(T)
    <3>1. T \subseteq 1..n
      BY Zenon DEF InByte
    <3>2. IsFiniteSet(1..n)
      BY FS_Interval
    <3>3. QED
      BY <3>1, <3>2, FS_Subset
  <2>3. \A i \in T : f[i] = Bit[i]
    BY <2>2 DEF Bit
  <2>4. SumOf(f, T) = SumOf(Bit, T)
    <3> HIDE DEF f, T
    <3>1. QED
      BY <2>2, <2>3, SumSame, Zenon
  <2>5. MapThenSumSet(LAMBDA i : ColumnBit(i), T) = SumOf(f, T)
    BY <2>1 DEF SumOf
  <2>6. QED
    BY <2>4, <2>5 DEF InByte
<1>4. M = [j \in 1..l |-> SumOf(Bit, InByte(B, j))]
  BY <1>3, Zenon DEF Mask
<1>5. ASSUME NEW j \in 1..l
      PROVE  /\ M[j] = SumOf(Bit, InByte(B, j)) /\ M[j] \in Int
             /\ \A m \in 0..7 : Tells(M[j], j, m, B)
  <2>1. M[j] = SumOf(Bit, InByte(B, j))
    BY <1>4
  <2>2. j \in Nat \ {0}
    BY <1>1
  <2> HIDE DEF M
  <2>3. QED
    BY <1>2, <2>1, <2>2, MaskBits, Zenon
<1> HIDE DEF l
<1>6. M \in Seq(Int) /\ Len(M) = l
  <2>1. M = [j \in 1..l |-> M[j]]
    BY <1>4
  <2> HIDE DEF M
  <2>2. QED
    BY <1>1, <1>5, <2>1, SeqMade, Zenon
<1>7. ASSUME NEW i \in 1..n
      PROVE  /\ ((i - 1) \div 8) + 1 \in 1..l
             /\ (M[((i - 1) \div 8) + 1] \div ColumnBit(i)) % 2 = 1 <=> i \in B
  <2> DEFINE x == i - 1  q == x \div 8  m == x % 8  j == q + 1
  <2>1. x \in Nat /\ x + 1 = i /\ q \in Nat /\ m \in 0..7 /\ x = 8 * q + m
    OBVIOUS
  <2>2. j \in 1..l
    <3>1. l = (n + 7) \div 8
      BY DEF l, MaskLen
    <3>2. 8 * l > n - 1
      BY <3>1
    <3> HIDE DEF x, q, m
    <3>3. x < n
      BY <2>1
    <3>4. q < l
      BY <1>1, <2>1, <3>2, <3>3
    <3>5. QED
      BY <1>1, <2>1, <3>4
  <2>3. 8 * (j - 1) + m + 1 = i
    <3> HIDE DEF x, q, m
    <3>1. QED
      BY <2>1
  <2>4. (M[j] \div ColumnBit(8 * (j - 1) + m + 1)) % 2 = 1 <=> 8 * (j - 1) + m + 1 \in B
    <3> HIDE DEF M, j, m
    <3>1. Tells(M[j], j, m, B)
      BY <1>5, <2>1, <2>2
    <3>2. QED
      BY <3>1 DEF Tells
  <2>5. QED
    <3>1. j = ((i - 1) \div 8) + 1
      OBVIOUS
    <3> HIDE DEF j, M, m
    <3>2. QED
      BY <2>2, <2>3, <2>4, <3>1
<1>8. QED
  BY <1>1, <1>6, <1>7 DEF l

LEMMA StartsFacts ==
  ASSUME NEW C, Columned(C), NEW vals, WellFormed(C, vals)
  PROVE  LET s == StartsPart(C, vals)  K == VarCount(C)
         IN /\ Pieces(s, Int, K) /\ Even(s, K, 2)
            /\ \A i \in 1..K : s[i] = U16(StartAt(C, vals, (K - i) + 1))
<1> DEFINE s == StartsPart(C, vals)  K == VarCount(C)
           S(k) == StartAt(C, vals, k)
           u == [k \in DOMAIN VarCols(C) |-> U16(S(k))]
<1>1. K \in Nat /\ DOMAIN VarCols(C) = 1..K
  BY VarColFacts
<1>2. ASSUME NEW k \in 1..K PROVE S(k) \in Nat
  <2>1. k - 1 \in 0..K /\ (k - 1) + 1 = k
    BY <1>1
  <2>2. S((k - 1) + 1) \in Nat
    <3> HIDE DEF K, S
    <3>1. QED
      BY <2>1, StartFacts DEF K, S
  <2>3. QED
    BY <2>1, <2>2
<1> HIDE DEF S, K
<1>3. u = [k \in 1..K |-> U16(S(k))]
  BY <1>1
<1>4. Len(u) = K
  BY <1>1, <1>3
<1>5. s = [i \in 1..K |-> u[(K - i) + 1]]
  <2>1. s = Reverse(u)
    BY DEF StartsPart, S
  <2> HIDE DEF u
  <2>2. QED
    BY <1>4, <2>1 DEF Reverse
<1>6. ASSUME NEW i \in 1..K
      PROVE  s[i] = U16(S((K - i) + 1)) /\ s[i] \in Seq(Int) /\ Len(s[i]) = 2
  <2> DEFINE k == (K - i) + 1
  <2>1. k \in 1..K
    BY <1>1
  <2>2. s[i] = u[k]
    BY <1>5
  <2> HIDE DEF k, s, u
  <2>3. s[i] = U16(S(k))
    BY <1>3, <2>1, <2>2
  <2>4. QED
    BY <1>2, <2>1, <2>3, U16Facts, Zenon DEF k
<1>7. s = [i \in 1..K |-> s[i]]
  BY <1>5
<1> HIDE DEF s, u
<1>8. Pieces(s, Int, K)
  BY <1>1, <1>6, <1>7, PiecesMade, Zenon
<1>9. QED
  BY <1>6, <1>8 DEF Even, s, S, K

\* Where the parts lie; e is the end of the variable-length bytes.
DataEnd(C, vals) == 2 + Area(C) + Len(FlattenSeq(DataPart(C, vals)))
RowLen(C, vals) == DataEnd(C, vals) + 2 * VarCount(C) + 4 + MaskLen(Len(C))

Built(C, vals, row) == row = BuildRow(C, vals)

LEMMA RowShape ==
  ASSUME NEW C, Columned(C), NEW vals, WellFormed(C, vals), NEW row, Built(C, vals, row)
  PROVE  /\ row \in Seq(Int) /\ Len(row) = RowLen(C, vals) /\ DataEnd(C, vals) \in Nat
         /\ Holds(row, FixedPart(C, vals), 2)
         /\ Holds(row, FlattenSeq(DataPart(C, vals)), 2 + Area(C))
         /\ Holds(row, U16(DataEnd(C, vals)), DataEnd(C, vals))
         /\ Holds(row, FlattenSeq(StartsPart(C, vals)), DataEnd(C, vals) + 2)
         /\ Holds(row, MaskPart(C, vals), DataEnd(C, vals) + 2 * VarCount(C) + 4)
         /\ FixedPart(C, vals) \in Seq(Int) /\ Len(FixedPart(C, vals)) = Area(C)
         /\ MaskLen(Len(C)) \in Nat
<1> DEFINE n == Len(C)  K == VarCount(C)  A == Area(C)  e == DataEnd(C, vals)
           a == U16(n)  b == FixedPart(C, vals)  c == FlattenSeq(DataPart(C, vals))
           d == U16(e)  s == StartsPart(C, vals)  f == U16(K)  g == MaskPart(C, vals)
<1>1. n \in Nat /\ DOMAIN C = 1..n /\ K \in Nat /\ A \in Nat
  BY ColumnFacts, VarColFacts, AreaFacts
<1>2. c \in Seq(Int) /\ e = 2 + A + Len(c) /\ StartAt(C, vals, K + 1) = e
  BY StartFacts DEF DataEnd
<1>3. Len(c) \in Nat
  BY <1>2, SeqParts
<1>4. e \in Nat
  <2> DEFINE l == Len(c)
  <2>1. e = 2 + A + l /\ l \in Nat
    BY <1>2, <1>3
  <2> HIDE DEF e, l, A
  <2>2. QED
    BY <1>1, <2>1
<1>5. b \in Seq(Int) /\ Len(b) = A
  <2>1. b = [p \in 1..A |-> b[p]] /\ \A p \in 1..A : b[p] = Cell(C, vals, p)
    BY DEF FixedPart
  <2>2. \A p \in 1..A : b[p] \in Int
    BY <2>1, CellFacts
  <2> HIDE DEF b, A
  <2>3. QED
    BY <1>1, <2>1, <2>2, SeqMade
<1>6. a \in Seq(Int) /\ Len(a) = 2 /\ d \in Seq(Int) /\ Len(d) = 2 /\ f \in Seq(Int) /\ Len(f) = 2
  <2> HIDE DEF n, K, e
  <2>1. QED
    BY <1>1, <1>4, U16Facts, Zenon
<1>7. FlattenSeq(s) \in Seq(Int) /\ Len(FlattenSeq(s)) = 2 * K
  <2>1. Pieces(s, Int, K) /\ Even(s, K, 2)
    BY StartsFacts
  <2> HIDE DEF s, K
  <2>2. QED
    BY <1>1, <2>1, PairsJoin, Zenon
<1>8. g \in Seq(Int) /\ Len(g) = MaskLen(n) /\ MaskLen(n) \in Nat
  <2> DEFINE B == {i \in DOMAIN C : vals[i] # Nil}
  <2>1. B \subseteq 1..n
    BY <1>1
  <2>2. g = Mask(B, n)
    BY DEF MaskPart
  <2> HIDE DEF B, n, g
  <2>3. QED
    BY <1>1, <2>1, <2>2, MaskFacts, Zenon
<1> DEFINE h == FlattenSeq(s)
<1>9. Spliced(row, a, b, c, d, h, f, g)
  <2>1. Len(VarCols(C)) = K
    BY DEF VarCount
  <2>2. Spliced(row, a, b, c, U16(StartAt(C, vals, K + 1)), h, f, g)
    BY <2>1, RowSpliced DEF Built
  <2>3. QED
    BY <1>2, <2>2
<1>10. h \in Seq(Int) /\ Len(h) = 2 * K
  BY <1>7
<1> DEFINE m == MaskLen(n)  l == Len(c)
<1>11. RowLen(C, vals) = e + 2 * K + 4 + m
  BY DEF RowLen
<1>12. e = 2 + A + l /\ l \in Nat /\ m \in Nat
  BY <1>2, <1>3, <1>8
<1> HIDE DEF a, b, c, d, f, g, h, n, K, A, e, m
<1>13. /\ row \in Seq(Int)
       /\ Len(row) = Len(a) + Len(b) + Len(c) + Len(d) + Len(h) + Len(f) + Len(g)
       /\ Holds(row, b, Len(a)) /\ Holds(row, c, Len(a) + Len(b))
       /\ Holds(row, d, Len(a) + Len(b) + Len(c))
       /\ Holds(row, h, Len(a) + Len(b) + Len(c) + Len(d))
       /\ Holds(row, g, Len(a) + Len(b) + Len(c) + Len(d) + Len(h) + Len(f))
  <2>1. /\ a \in Seq(Int) /\ b \in Seq(Int) /\ c \in Seq(Int) /\ d \in Seq(Int) /\ h \in Seq(Int)
        /\ f \in Seq(Int) /\ g \in Seq(Int) /\ Spliced(row, a, b, c, d, h, f, g)
    BY <1>2, <1>5, <1>6, <1>8, <1>9, <1>10
  <2>2. Joint(row, a, b, c, d, h, f, g)
    BY <2>1 DEF Joint
  <2>3. SevenBytes(row, a, b, c, d, h, f, g)
    BY <2>2, SevenParts
  <2>4. QED
    BY <2>3 DEF SevenBytes
<1>14. /\ Len(a) = 2 /\ Len(a) + Len(b) = 2 + A /\ Len(a) + Len(b) + Len(c) = e
       /\ Len(a) + Len(b) + Len(c) + Len(d) = e + 2
       /\ Len(a) + Len(b) + Len(c) + Len(d) + Len(h) + Len(f) = e + 2 * K + 4
       /\ Len(a) + Len(b) + Len(c) + Len(d) + Len(h) + Len(f) + Len(g) = e + 2 * K + 4 + m
  <2> DEFINE la == Len(a)  lb == Len(b)  ld == Len(d)  lh == Len(h)  lf == Len(f)  lg == Len(g)
  <2>1. la = 2 /\ lb = A /\ ld = 2 /\ lh = 2 * K /\ lf = 2 /\ lg = m
    BY <1>5, <1>6, <1>8, <1>10 DEF m
  <2> HIDE DEF la, lb, ld, lh, lf, lg, l
  <2>2. /\ la = 2 /\ la + lb = 2 + A /\ la + lb + l = e /\ la + lb + l + ld = e + 2
        /\ la + lb + l + ld + lh + lf = e + 2 * K + 4
        /\ la + lb + l + ld + lh + lf + lg = e + 2 * K + 4 + m
    BY <1>1, <1>4, <1>12, <2>1
  <2>3. QED
    BY <2>2 DEF la, lb, ld, lh, lf, lg, l
<1>15. /\ row \in Seq(Int) /\ Len(row) = e + 2 * K + 4 + m
       /\ Holds(row, b, 2) /\ Holds(row, c, 2 + A) /\ Holds(row, d, e) /\ Holds(row, h, e + 2)
       /\ Holds(row, g, e + 2 * K + 4)
  BY <1>13, <1>14
<1>16. QED
  BY <1>4, <1>5, <1>11, <1>12, <1>15 DEF a, b, c, d, f, g, h, n, K, A, e, m

LEMMA BitRead ==
  ASSUME NEW C, Columned(C), NEW vals, WellFormed(C, vals), NEW row, Built(C, vals, row),
         NEW i \in 1..Len(C)
  PROVE  NullBit(row, Len(C), i) <=> vals[i] # Nil
<1> DEFINE n == Len(C)  g == MaskPart(C, vals)  l == MaskLen(n)  b == (i - 1) \div 8
           x == DataEnd(C, vals) + 2 * VarCount(C) + 4
           B == {k \in DOMAIN C : vals[k] # Nil}
<1>1. n \in Nat /\ DOMAIN C = 1..n /\ i \in 1..n
  BY ColumnFacts
<1>2. g = Mask(B, n) /\ B \subseteq 1..n /\ (i \in B <=> vals[i] # Nil)
  BY <1>1 DEF MaskPart
<1>3. l \in Nat /\ Len(g) = l /\ b + 1 \in 1..l 
      /\ ((g[b + 1] \div ColumnBit(i)) % 2 = 1 <=> i \in B)
  <2> HIDE DEF B, g, n
  <2>1. QED
    BY <1>1, <1>2, MaskFacts, Zenon
<1>4. Len(row) = x + l /\ Holds(row, g, x) /\ x \in Nat
  <2> DEFINE e == DataEnd(C, vals)  K == VarCount(C)
  <2>1. /\ Len(row) = RowLen(C, vals) /\ Holds(row, g, x) /\ e \in Nat
    BY RowShape
  <2>2. K \in Nat
    BY VarColFacts
  <2>3. Len(row) = x + l
    BY <2>1 DEF RowLen
  <2>4. x \in Nat
    <3> HIDE DEF e, K
    <3>1. QED
      BY <2>1, <2>2 DEF e, K
  <2>5. QED
    BY <2>1, <2>3, <2>4
<1> HIDE DEF x, l, b, n, g, B
<1>5. row[x + (b + 1)] = g[b + 1]
  <2> DEFINE q == b + 1
  <2>1. q \in 1..Len(g)
    BY <1>3
  <2> HIDE DEF q
  <2>2. row[x + q] = g[q]
    BY <1>4, <2>1 DEF Holds
  <2>3. QED
    BY <2>2 DEF q
<1>6. Len(row) - l + 1 + b = x + (b + 1)
  <2> DEFINE r == Len(row)
  <2>1. b \in Int /\ r = x + l
    BY <1>1, <1>4 DEF b
  <2> HIDE DEF r
  <2>2. r - l + 1 + b = x + (b + 1)
    BY <1>3, <1>4, <2>1
  <2>3. QED
    BY <2>2 DEF r
<1>7. NullBit(row, n, i) <=> (row[x + (b + 1)] \div ColumnBit(i)) % 2 = 1
  <2>1. NullBit(row, n, i) <=> (row[Len(row) - l + 1 + b] \div ColumnBit(i)) % 2 = 1
    BY DEF NullBit, b, l
  <2>2. QED
    BY <1>6, <2>1
<1>8. QED
  BY <1>2, <1>3, <1>5, <1>7 DEF n

\* The place of a start among the last bytes of a row.
LEMMA StartRead ==
  ASSUME NEW C, Columned(C), NEW vals, WellFormed(C, vals), NEW row, Built(C, vals, row),
         NEW j \in 0..VarCount(C)
  PROVE  U16At(row, DataEnd(C, vals) + 2 * j) = StartAt(C, vals, (VarCount(C) - j) + 1)
<1> DEFINE e == DataEnd(C, vals)  K == VarCount(C)  s == StartsPart(C, vals)  h == FlattenSeq(s)
           S(k) == StartAt(C, vals, k)
<1>1. K \in Nat /\ e \in Nat /\ Holds(row, U16(e), e) /\ Holds(row, h, e + 2)
  BY RowShape, VarColFacts
<1>2. CASE j = 0
  <2>1. S((K - j) + 1) = e
    <3>1. (K - j) + 1 = K + 1
      BY <1>1, <1>2
    <3>2. S(K + 1) = e
      BY StartFacts DEF DataEnd
    <3>3. QED
      BY <3>1, <3>2
  <2> HIDE DEF S, K, e
  <2>2. Len(U16(e)) = 2 /\ U16(e)[1] + U16(e)[2] * Base = e
    BY <1>1, U16Facts
  <2>3. row[e + 1] = U16(e)[1] /\ row[e + 2] = U16(e)[2]
    BY <1>1, <2>2 DEF Holds
  <2>4. e + 2 * j = e
    BY <1>1, <1>2
  <2>5. U16At(row, e + 2 * j) = e
    BY <2>2, <2>3, <2>4 DEF U16At
  <2>6. QED
    BY <2>1, <2>5 DEF S, K, e
<1>3. CASE j # 0
  <2> DEFINE k == j - 1
  <2>1. k \in 0..(K - 1) /\ k + 1 = j /\ j \in 1..K
    BY <1>1, <1>3
  <2>2. Pieces(s, Int, K) /\ Even(s, K, 2) /\ s[j] = U16(S((K - j) + 1))
    BY <2>1, StartsFacts
  <2>3. Len(h) = 2 * K /\ h[2 * k + 1] = s[k + 1][1] /\ h[2 * k + 2] = s[k + 1][2]
    <3> HIDE DEF s, K, k
    <3>1. FlattenSeq(s) \in Seq(Int) /\ Len(h) = 2 * K
      BY <1>1, <2>2, PairsJoin, Zenon
    <3>2. InPair(s, k)
      BY <1>1, <2>1, <2>2, PairRead
    <3>3. QED
      BY <3>1, <3>2 DEF InPair
  <2>4. S((K - j) + 1) \in Nat
    <3>1. K - j \in 0..K
      BY <1>1, <2>1
    <3>2. QED
      BY <3>1, StartFacts
  <2> HIDE DEF S, K, e, s, h
  <2> DEFINE w == S((K - j) + 1)
  <2>5. U16(w)[1] + U16(w)[2] * Base = w
    BY <2>4, U16Facts
  <2>6. 2 * k + 1 \in 1..Len(h) /\ 2 * k + 2 \in 1..Len(h)
    BY <1>1, <2>1, <2>3
  <2>7. row[(e + 2) + (2 * k + 1)] = h[2 * k + 1] /\ row[(e + 2) + (2 * k + 2)] = h[2 * k + 2]
    BY <1>1, <2>6 DEF Holds
  <2>8. (e + 2 * j) + 1 = (e + 2) + (2 * k + 1) /\ (e + 2 * j) + 2 = (e + 2) + (2 * k + 2)
    BY <1>1, <2>1
  <2>9. U16At(row, e + 2 * j) = s[j][1] + s[j][2] * Base
    BY <2>1, <2>3, <2>7, <2>8, Zenon DEF U16At
  <2>10. U16At(row, e + 2 * j) = w
    BY <2>2, <2>5, <2>9
  <2>11. QED
    BY <2>10 DEF S, K, e
<1>4. QED
  BY <1>2, <1>3

LEMMA SliceHolds ==
  ASSUME NEW r \in Seq(Int), NEW x \in Seq(Int), NEW u \in Nat, Holds(r, x, u)
  PROVE  SubSeq(r, u + 1, u + Len(x)) = x
<1> DEFINE y == SubSeq(r, u + 1, u + Len(x))  l == Len(x)
<1>1. l \in Nat /\ u + l <= Len(r) /\ Len(r) \in Nat /\ \A j \in 1..l : r[u + j] = x[j]
  BY SeqParts DEF Holds
<1>2. y \in Seq(Int) /\ Len(y) = l /\ \A j \in 1..l : y[j] = r[u + j]
  BY <1>1
<1> HIDE DEF y
<1>3. y = x
  BY <1>1, <1>2, SeqEqual, Zenon
<1>4. QED
  BY <1>3 DEF y

\* Where parseRowAt looks for what column c begins and ends at.
StartPlace(C, row, c) == (Len(row) - MaskLen(Len(C))) - 4 - 2 * C[c].off
VarBytes(C, row, c) == SubSeq(row, U16At(row, StartPlace(C, row, c)) + 1,
                              U16At(row, StartPlace(C, row, c) - 2))

LEMMA VarRead ==
  ASSUME NEW C, Columned(C), NEW vals, WellFormed(C, vals), NEW row, Built(C, vals, row),
         NEW i \in 1..Len(C), Variable(C[i].type)
  PROVE  VarBytes(C, row, i) = Datum(C, vals, i)
<1> DEFINE K == VarCount(C)  e == DataEnd(C, vals)  o == C[i].off  A == 2 + Area(C)
           D == DataPart(C, vals)  F == FlattenSeq(D)  S(k) == StartAt(C, vals, k)
           p == StartPlace(C, row, i)  m == MaskLen(Len(C))
<1>1. K \in Nat /\ o \in 0..(K - 1) /\ VarCols(C)[o + 1] = i
  BY VarColFacts
<1>2. e \in Nat /\ m \in Nat /\ Len(row) = e + 2 * K + 4 + m /\ row \in Seq(Int) /\ Holds(row, F, A)
  BY RowShape DEF RowLen
<1>3. A \in Nat
  BY AreaFacts
<1>4. p = (Len(row) - m) - 4 - 2 * o
  BY DEF StartPlace
<1> DEFINE r == Len(row)
<1>5. p = e + 2 * (K - o) /\ p - 2 = e + 2 * (K - (o + 1)) /\ K - o \in 0..K /\ K - (o + 1) \in 0..K
  <2> HIDE DEF p, e, K, o, m
  <2> HIDE DEF r
  <2>1. r = e + 2 * K + 4 + m /\ p = (r - m) - 4 - 2 * o
    BY <1>2, <1>4 DEF r
  <2>2. QED
    BY <1>1, <1>2, <2>1
<1>6. U16At(row, p) = S(o + 1)
  <2>1. (K - (K - o)) + 1 = o + 1
    BY <1>1
  <2>2. U16At(row, e + 2 * (K - o)) = S((K - (K - o)) + 1)
    BY <1>5, StartRead
  <2>3. QED
    BY <1>5, <2>1, <2>2
<1>7. U16At(row, p - 2) = S(o + 2)
  <2>1. (K - (K - (o + 1))) + 1 = o + 2
    BY <1>1
  <2>2. U16At(row, e + 2 * (K - (o + 1))) = S((K - (K - (o + 1))) + 1)
    BY <1>5, StartRead
  <2>3. QED
    BY <1>5, <2>1, <2>2
<1> DEFINE x == D[o + 1]  u == S(o + 1)  v == S(o + 2)
<1>8. x = Datum(C, vals, i) /\ x \in Seq(Int)
  <2>1. o + 1 \in 1..K
    BY <1>1
  <2>2. QED
    BY <1>1, <2>1, DataFacts DEF Pieces
<1>9. /\ v = u + Len(x) /\ v <= A + Len(F)
      /\ \A j \in 1..Len(x) : F[(u - A) + j] = x[j]
  <2>1. \A k \in 0..(K - 1) :
          /\ S(k + 2) = S(k + 1) + Len(D[k + 1])
          /\ S(k + 2) <= A + Len(F)
          /\ \A j \in 1..Len(D[k + 1]) : F[(S(k + 1) - A) + j] = D[k + 1][j]
    BY StartFacts
  <2> HIDE DEF S, K, A, F, D, o
  <2>2. QED
    BY <1>1, <2>1
<1>10. u \in Nat /\ u >= A
  <2>1. S(o + 1) = A + JoinLen(D, o)
    <3>1. (o + 1) - 1 = o
      BY <1>1
    <3>2. QED
      BY <3>1 DEF StartAt
  <2>2. JoinLen(D, o) \in Nat
    <3>1. Pieces(D, Int, K) /\ o \in 0..K
      BY <1>1, DataFacts
    <3> HIDE DEF D, K, o
    <3>2. Joined(D, K)
      BY <1>1, <3>1, JoinFacts
    <3>3. QED
      BY <3>1, <3>2 DEF Joined
  <2> DEFINE z == JoinLen(D, o)
  <2> HIDE DEF z, A
  <2> HIDE DEF u
  <2>3. u = A + z
    BY <2>1 DEF u, z
  <2>4. QED
    BY <1>3, <2>2, <2>3 DEF z
<1>11. Len(x) \in Nat /\ Len(F) \in Nat /\ x = [j \in 1..Len(x) |-> x[j]]
  <2>1. F \in Seq(Int)
    BY StartFacts
  <2> HIDE DEF x, F
  <2>2. QED
    BY <1>8, <2>1, SeqParts
<1> DEFINE l == Len(x)
<1>12. VarBytes(C, row, i) = SubSeq(row, u + 1, v)
  BY <1>6, <1>7, Zenon DEF VarBytes
<1> HIDE DEF A, F, e, u, v, x, S, D, K, o, m, p
<1>13. ASSUME NEW j \in 1..l PROVE row[u + j] = x[j]
  <2> DEFINE q == (u - A) + j  f == Len(F)
  <2>1. l \in Nat /\ f \in Nat /\ v = u + l /\ v <= A + f
    BY <1>9, <1>11
  <2>2. q \in 1..f /\ A + q = u + j
    <3> HIDE DEF l, f
    <3>1. QED
      BY <1>3, <1>10, <2>1
  <2> HIDE DEF q
  <2>3. row[A + q] = F[q]
    BY <1>2, <2>2 DEF Holds
  <2>4. F[q] = x[j]
    BY <1>9 DEF q
  <2>5. QED
    BY <2>2, <2>3, <2>4
<1>14. u + Len(x) <= Len(row)
  <2> DEFINE f == Len(F)
  <2>1. A + f <= Len(row) /\ Len(row) \in Nat
    BY <1>2, SeqParts DEF Holds
  <2> HIDE DEF f, l
  <2> HIDE DEF r
  <2>2. QED
    BY <1>3, <1>9, <1>10, <1>11, <2>1 DEF f, l, r
<1>15. Holds(row, x, u)
  BY <1>13, <1>14 DEF Holds
<1>16. SubSeq(row, u + 1, u + Len(x)) = x
  BY <1>2, <1>8, <1>10, <1>15, SliceHolds, Zenon
<1>17. QED
  BY <1>8, <1>9, <1>12, <1>16

\* No two fixed-length columns share a byte.
Apart(C) == \A i, j \in FixedCols(C) : i < j => C[i].off + Size[C[i].type] <= C[j].off

FixedBytes(C, row, i) == SubSeq(row, 2 + C[i].off + 1, 2 + C[i].off + Size[C[i].type])

LEMMA OwnBytes ==
  ASSUME NEW C, Columned(C), Apart(C), NEW vals, NEW i \in FixedCols(C), vals[i] # Nil,
         NEW j \in 1..Size[C[i].type]
  PROVE  Covering(C, vals, C[i].off + j) = {i}
<1> DEFINE p == C[i].off + j
<1>1. FixedCols(C) \subseteq 1..Len(C) /\ Len(C) \in Nat
  BY ColumnFacts
<1>2. \A k \in FixedCols(C) : C[k].off \in Nat /\ Size[C[k].type] \in Nat /\ k \in Int
  <2>1. \A k \in 1..Len(C) : C[k].off \in Nat /\ Size[C[k].type] \in 0..8
    BY ColumnFacts, Zenon
  <2>2. QED
    BY <1>1, <2>1
<1>3. p \in CellsAt(C, i)
  BY <1>2 DEF CellsAt
<1>4. ASSUME NEW k \in FixedCols(C), p \in CellsAt(C, k) PROVE k = i
  <2> DEFINE ok == C[k].off  oi == C[i].off  zk == Size[C[k].type]  zi == Size[C[i].type]
  <2>1. ok \in Nat /\ oi \in Nat /\ zk \in Nat /\ zi \in Nat /\ k \in Int /\ i \in Int
    BY <1>2
  <2>2. ok + 1 <= oi + j /\ oi + j <= ok + zk
    BY <1>4, <2>1 DEF CellsAt
  <2>3. (k < i => ok + zk <= oi) /\ (i < k => oi + zi <= ok)
    BY DEF Apart
  <2>4. j \in Nat /\ 1 <= j /\ j <= zi
    BY <2>1
  <2> HIDE DEF ok, oi, zk, zi
  <2>5. ~ k < i /\ ~ i < k
    BY <2>1, <2>2, <2>3, <2>4
  <2>6. QED
    BY <2>1, <2>5
<1>5. QED
  BY <1>3, <1>4 DEF Covering

LEMMA FixedRead ==
  ASSUME NEW C, Columned(C), NEW vals, WellFormed(C, vals), NEW row, Built(C, vals, row),
         NEW i \in FixedCols(C)
  PROVE  /\ FixedBytes(C, row, i) \in Cells(C[i].type)
         /\ Apart(C) /\ vals[i] # Nil => FixedBytes(C, row, i) = Written(C[i].type, vals[i])
<1> DEFINE o == C[i].off  z == Size[C[i].type]  A == Area(C)  b == FixedPart(C, vals)
           y == FixedBytes(C, row, i)
<1>1. o \in Nat /\ z \in Nat /\ A \in Nat /\ o + z <= A /\ i \in DOMAIN C
      /\ C[i].type \in Types /\ ~ Variable(C[i].type)
  BY ColumnFacts, AreaFacts
<1>2. row \in Seq(Int) /\ Len(row) \in Nat /\ Holds(row, b, 2) /\ Len(b) = A
  BY RowShape, SeqParts
<1>3. ASSUME NEW j \in 1..z
      PROVE  o + j \in 1..A /\ row[(2 + o) + j] = Cell(C, vals, o + j)
             /\ Cell(C, vals, o + j) \in Int
  <2> DEFINE p == o + j
  <2>1. p \in 1..A /\ (2 + o) + j = 2 + p
    <3> HIDE DEF o, z, A
    <3>1. QED
      BY <1>1
  <2>2. b[p] = Cell(C, vals, p)
    BY <2>1 DEF FixedPart
  <2> HIDE DEF p
  <2> HIDE DEF b
  <2>3. row[2 + p] = b[p]
    BY <1>2, <2>1 DEF Holds
  <2>4. Cell(C, vals, p) \in Int
    BY <2>1, CellFacts
  <2>5. QED
    BY <2>1, <2>2, <2>3, <2>4 DEF p
<1>4. y = [j \in 1..z |-> row[(2 + o) + j]]
  <2>1. 2 + A <= Len(row)
    BY <1>2 DEF Holds
  <2> DEFINE q == 2 + o
  <2>2. y = SubSeq(row, q + 1, q + z)
    BY DEF FixedBytes
  <2>3. q \in Nat /\ q + z <= Len(row)
    <3> HIDE DEF o, z, A
    <3> DEFINE r == Len(row)
    <3>1. r \in Nat /\ 2 + A <= r
      BY <1>2, <2>1
    <3> HIDE DEF r
    <3>2. q + z <= r /\ q \in Nat
      BY <1>1, <3>1
    <3>3. QED
      BY <3>2 DEF r
  <2> HIDE DEF q, y, o, z
  <2>4. SubSeq(row, q + 1, q + z) = [j \in 1..z |-> row[q + j]]
    BY <1>1, <1>2, <2>3
  <2>5. QED
    BY <2>2, <2>4 DEF q
<1> HIDE DEF y
<1>5. y \in Cells(C[i].type)
  <2>1. \A j \in 1..z : row[(2 + o) + j] \in Int
    BY <1>3
  <2> HIDE DEF o
  <2>2. y \in [1..z -> Int]
    BY <1>4, <2>1
  <2>3. QED
    BY <2>2 DEF Cells
<1>6. ASSUME Apart(C), vals[i] # Nil PROVE y = Written(C[i].type, vals[i])
  <2> DEFINE w == Written(C[i].type, vals[i])
  <2>1. w \in [1..z -> Int]
    BY <1>1, FixedInt DEF Cells, WellFormed
  <2>2. ASSUME NEW j \in 1..z PROVE y[j] = w[j]
    <3>1. Covering(C, vals, o + j) = {i}
      BY <1>6, OwnBytes
    <3>2. Cell(C, vals, o + j) = w[(o + j) - o]
      BY <1>3, <3>1, CellFacts
    <3>3. (o + j) - o = j
      BY <1>1
    <3>4. QED
      BY <1>3, <1>4, <3>2, <3>3
  <2> HIDE DEF w
  <2>3. y = w
    BY <1>4, <2>1, <2>2
  <2>4. QED
    BY <2>3 DEF w
<1>7. QED
  BY <1>5, <1>6 DEF y

-----------------------------------------------------------------------------
(* What a row reads as *)

LEMMA ParseParts ==
  ASSUME NEW C, NEW row
  PROVE  /\ DOMAIN ParseRow(C, row) = DOMAIN C
         /\ \A i \in DOMAIN C :
              ParseRow(C, row)[i]
                = IF ~ NullBit(row, Len(C), i) THEN Nil
                  ELSE Read(C[i].type, IF Variable(C[i].type) THEN VarBytes(C, row, i)
                                       ELSE FixedBytes(C, row, i))
BY DEF ParseRow, VarBytes, FixedBytes, StartPlace

\* Column i of a row of the values vals.
ReadsBack(C, vals, row, i) ==
  LET t == C[i].type  x == ParseRow(C, row)[i]
  IN /\ IsValue(x) /\ (x = Nil <=> vals[i] = Nil) /\ (x # Nil => x.go = Native[t])
     /\ Apart(C) /\ IsExact(t, vals[i]) => x = Canonical(t, vals[i])

\* What parseRowAt reads of the bytes buildRowData made of values is one value for each of them, of
\* the column's own kind, nil where nil was written, and what was written wherever the column
\* represents it and has its bytes for itself.
THEOREM RowRoundTrip ==
  ASSUME NEW C, Columned(C), NEW vals, WellFormed(C, vals), NEW row, Built(C, vals, row),
         NEW i \in DOMAIN C
  PROVE  ReadsBack(C, vals, row, i)
<1> DEFINE t == C[i].type  x == ParseRow(C, row)[i]  v == vals[i]
           b == IF Variable(t) THEN VarBytes(C, row, i) ELSE FixedBytes(C, row, i)
<1>1. i \in 1..Len(C) /\ t \in Types /\ IsValue(v) /\ (i \in FixedCols(C) <=> ~ Variable(t))
  BY ColumnFacts DEF WellFormed
<1>2. x = IF v = Nil THEN Nil ELSE Read(t, b)
  <2>1. NullBit(row, Len(C), i) <=> v # Nil
    BY <1>1, BitRead
  <2>2. x = IF ~ NullBit(row, Len(C), i) THEN Nil ELSE Read(t, b)
    BY ParseParts
  <2>3. QED
    BY <2>1, <2>2
<1>3. CASE v = Nil
  <2>1. x = Nil /\ Canonical(t, v) = Nil
    BY <1>2, <1>3 DEF Canonical
  <2>2. IsValue(Nil)
    BY DEF IsValue, Nil
  <2>3. QED
    BY <1>3, <2>1, <2>2 DEF ReadsBack
<1>4. CASE v # Nil
  <2>1. x = Read(t, b)
    BY <1>2, <1>4
  <2>2. (Variable(t) => b \in Seq(Int)) /\ (~ Variable(t) => b \in Cells(t))
    <3>1. CASE Variable(t)
      <4>1. b = Written(t, v)
        BY <1>1, <1>4, <3>1, VarRead DEF Datum
      <4>2. QED
        BY <1>1, <3>1, <4>1, VariableRoundTrip
    <3>2. CASE ~ Variable(t)
      BY <1>1, <3>2, FixedRead
    <3>3. QED
      BY <3>1, <3>2
  <2>3. IsValue(x) /\ x # Nil /\ x.go = Native[t]
    <3> HIDE DEF b, t
    <3>1. QED
      BY <1>1, <2>1, <2>2, ReadIsValue
  <2>4. ASSUME Apart(C), IsExact(t, v) PROVE x = Canonical(t, v)
    <3>1. CASE Variable(t)
      <4>1. b = Written(t, v)
        BY <1>1, <1>4, <3>1, VarRead DEF Datum
      <4>2. Read(t, Written(t, v)) = Canonical(t, v)
        BY <1>1, <1>4, <2>4, <3>1, VariableRoundTrip
      <4>3. QED
        BY <2>1, <4>1, <4>2
    <3>2. CASE ~ Variable(t)
      <4>1. b = Written(t, v)
        BY <1>1, <1>4, <2>4, <3>2, FixedRead
      <4>2. Read(t, Written(t, v)) = Canonical(t, v)
        BY <1>1, <1>4, <2>4, <3>2, FixedRoundTrip
      <4>3. QED
        BY <2>1, <4>1, <4>2
    <3>3. QED
      BY <3>1, <3>2
  <2>5. QED
    BY <1>4, <2>3, <2>4 DEF ReadsBack
<1>5. QED
  BY <1>3, <1>4

\* A row is one that BuildRow makes of values, and what it reads as is what was given.
BuiltOf(C, row) == \E w : WellFormed(C, w) /\ Built(C, w, row)
Faithful(C, row, g, i) ==
  Apart(C) /\ IsExact(C[i].type, g[i]) => ParseRow(C, row)[i] = Canonical(C[i].type, g[i])
Kept(C, row, g) == /\ WellFormed(C, g) /\ BuiltOf(C, row)
                   /\ \A i \in DOMAIN C : Faithful(C, row, g, i)

LEMMA KeptNew ==
  ASSUME NEW C, Columned(C), NEW vals, WellFormed(C, vals)
  PROVE  Kept(C, BuildRow(C, vals), vals)
<1>1. PICK row : Built(C, vals, row)
  BY DEF Built
<1>2. row = BuildRow(C, vals)
  BY <1>1 DEF Built
<1>3. \A i \in DOMAIN C : Faithful(C, row, vals, i)
  BY <1>1, RowRoundTrip DEF ReadsBack, Faithful
<1>4. QED
  BY <1>1, <1>2, <1>3 DEF Kept, BuiltOf

\* The values of a row that an Update assigns the values set to.
Changed(C, row, set) == [i \in DOMAIN C |-> IF i \in DOMAIN set THEN set[i] ELSE ParseRow(C, row)[i]]
GivenNow(C, g, set) == [i \in DOMAIN C |-> IF i \in DOMAIN set THEN set[i] ELSE g[i]]

LEMMA KeptChanged ==
  ASSUME NEW C, Columned(C), NEW row, NEW g, Kept(C, row, g),
         NEW set, \A i \in DOMAIN set : IsValue(set[i])
  PROVE  Kept(C, BuildRow(C, Changed(C, row, set)), GivenNow(C, g, set))
<1> DEFINE w == Changed(C, row, set)  h == GivenNow(C, g, set)
<1>1. PICK v : WellFormed(C, v) /\ Built(C, v, row)
  BY DEF Kept, BuiltOf
<1>2. \A i \in DOMAIN C : IsValue(ParseRow(C, row)[i])
  BY <1>1, RowRoundTrip DEF ReadsBack
<1>3. \A i \in DOMAIN C : /\ w[i] = IF i \in DOMAIN set THEN set[i] ELSE ParseRow(C, row)[i]
                          /\ h[i] = IF i \in DOMAIN set THEN set[i] ELSE g[i]
  BY DEF Changed, GivenNow
<1> HIDE DEF w, h
<1>4. WellFormed(C, w) /\ WellFormed(C, h) /\ WellFormed(C, g)
  BY <1>2, <1>3 DEF Kept, WellFormed
<1>5. PICK new : Built(C, w, new)
  BY DEF Built
<1>6. new = BuildRow(C, w)
  BY <1>5 DEF Built
<1>7. ASSUME NEW i \in DOMAIN C PROVE Faithful(C, new, h, i)
  <2> DEFINE t == C[i].type
  <2>1. Apart(C) /\ IsExact(t, w[i]) => ParseRow(C, new)[i] = Canonical(t, w[i])
    BY <1>4, <1>5, RowRoundTrip DEF ReadsBack
  <2>2. CASE i \in DOMAIN set
    BY <1>3, <2>1, <2>2 DEF Faithful
  <2>3. CASE i \notin DOMAIN set
    <3>1. w[i] = ParseRow(C, row)[i] /\ h[i] = g[i] /\ IsValue(g[i]) /\ t \in Types
      <4>1. t \in Types
        BY ColumnFacts
      <4>2. QED
        BY <1>3, <1>4, <2>3, <4>1 DEF WellFormed
    <3>2. SUFFICES ASSUME Apart(C), IsExact(t, g[i]) PROVE ParseRow(C, new)[i] = Canonical(t, g[i])
      BY <3>1 DEF Faithful
    <3>3. w[i] = Canonical(t, g[i])
      BY <3>1, <3>2 DEF Kept, Faithful
    <3>4. IsExact(t, Canonical(t, g[i])) /\ Canonical(t, Canonical(t, g[i])) = Canonical(t, g[i])
      BY <3>1, <3>2, CanonicalExact
    <3>5. QED
      BY <2>1, <3>2, <3>3, <3>4
  <2>4. QED
    BY <2>2, <2>3
<1>8. QED
  BY <1>4, <1>5, <1>6, <1>7 DEF Kept, BuiltOf, w, h

-----------------------------------------------------------------------------
(* The columns of a transaction *)

LEMMA ParsedFacts ==
  ASSUME NEW d \in Schemas, NEW C, C = Shape(Columns(d))
  PROVE  /\ Columned(C) /\ DOMAIN C = DOMAIN d.cols
         /\ \A i \in DOMAIN C : C[i].type = d.cols[i].type /\ C[i].off = Place(d.cols, i)
<1>1. Laid(Columns(d), Offs(d)) /\ DOMAIN Columns(d) = DOMAIN d.cols
  BY ColumnsLaid
<1>2. Laid(C, Offs(d)) /\ DOMAIN C = DOMAIN d.cols
  BY <1>1, ShapeLaid, Zenon
<1>3. Offs(d) \subseteq Nat
  BY PlaceFacts DEF Offs
<1>4. ColumnSet(Offs(d)) \subseteq ColumnSet(Nat)
  BY <1>3 DEF ColumnSet
<1>5. Columned(C)
  <2>1. C \in Seq(ColumnSet(Nat))
    <3>1. Len(C) \in Nat /\ C = [i \in 1..Len(C) |-> C[i]]
          /\ \A i \in 1..Len(C) : C[i] \in ColumnSet(Offs(d))
      BY <1>2, SeqParts DEF Laid
    <3>2. \A i \in 1..Len(C) : C[i] \in ColumnSet(Nat)
      BY <1>4, <3>1
    <3>3. QED
      BY <3>1, <3>2, SeqMade
  <2>2. QED
    BY <1>2, <2>1 DEF Columned, Laid
<1>6. ASSUME NEW i \in DOMAIN C PROVE C[i].type = d.cols[i].type /\ C[i].off = Place(d.cols, i)
  <2> DEFINE c == Columns(d)[i]
  <2>1. C[i] = [c EXCEPT !.nullable = TRUE] /\ i \in DOMAIN d.cols
    BY <1>1, <1>2 DEF Shape
  <2>2. c = [type |-> d.cols[i].type, len |-> ColLen(d.cols[i]),
             nullable |-> d.cols[i].nullable, auto |-> d.cols[i].auto, off |-> Place(d.cols, i)]
    BY <2>1 DEF Columns
  <2>3. QED
    BY <2>1, <2>2
<1>7. QED
  BY <1>2, <1>5, <1>6

LEMMA RoomyApart ==
  ASSUME NEW C, C = Shape(Columns(def)), def \in Schemas, Roomy
  PROVE  Apart(C)
<1>1. /\ DOMAIN C = DOMAIN def.cols
      /\ \A i \in DOMAIN C : C[i].type = def.cols[i].type /\ C[i].off = Place(def.cols, i)
  BY ParsedFacts
<1>2. FixedCols(C) = FixedCols(def.cols)
  BY <1>1 DEF FixedCols
<1>3. SUFFICES ASSUME NEW i \in FixedCols(def.cols), NEW j \in FixedCols(def.cols), i < j
               PROVE  Place(def.cols, i) + Size[def.cols[i].type] <= Place(def.cols, j)
  BY <1>1, <1>2 DEF Apart, FixedCols
<1> DEFINE c == def.cols[i]  p == Place(def.cols, i)  q == Place(def.cols, j)  l == ColLen(c)
           z == Size[c.type]
<1>4. p \in Nat /\ l \in Nat /\ q \in Nat /\ p + l <= q
  BY <1>3, PlaceFacts DEF FixedCols
<1>5. z <= l /\ z \in Nat
  <2>1. i \in DOMAIN def.cols /\ ~ Variable(c.type) /\ c.type # "Text"
    BY DEF FixedCols, Variable
  <2>2. c.type \in Types /\ c.len \in Int
    BY <2>1, DefParts
  <2>3. z \in Nat
    BY <2>2, SizeFacts
  <2>4. c.len \notin 1..(z - 1)
    BY DEF Roomy
  <2>5. l = IF c.len > 0 THEN c.len ELSE z
    BY <2>1 DEF ColLen
  <2> HIDE DEF z, c, l
  <2>6. QED
    BY <2>2, <2>3, <2>4, <2>5 DEF c
<1> HIDE DEF p, q, l, z, c
<1>6. p + z <= q
  BY <1>4, <1>5
<1>7. QED
  BY <1>6 DEF p, q, z, c

RowsKept == \A r \in Live : Kept(Parsed, rows[r], given[r])
RInv == TInv /\ RowsKept

LEMMA TransactionColumns ==
  ASSUME TInv
  PROVE  /\ def \in Schemas /\ Parsed = Shape(Columns(def)) /\ Columned(Parsed)
         /\ DOMAIN Parsed = ColNums /\ \A i \in ColNums : Parsed[i].type = def.cols[i].type
<1>1. def \in Schemas /\ Parsed = Shape(Columns(def))
  BY DEF TInv, TypeOK
<1>2. /\ Columned(Parsed) /\ DOMAIN Parsed = DOMAIN def.cols
      /\ \A i \in DOMAIN Parsed : Parsed[i].type = def.cols[i].type
  BY <1>1, ParsedFacts
<1>3. QED
  BY <1>1, <1>2 DEF ColNums

\* A step leaves the columns of a transaction as they are.
LEMMA SameColumns ==
  ASSUME TInv, TInv', def' = def
  PROVE  Parsed' = Parsed
BY DEF TInv, TypeOK

LEMMA NumberIsValue == ASSUME NEW n \in Nat PROVE IsValue(Number32(n))
<1> DEFINE v == Number32(n)
<1>1. v = [go |-> "int32", s |-> <<n>>]
  BY DEF Number32, Value
<1> HIDE DEF v
<1>2. v.go = "int32" /\ v.s = <<n>>
  BY <1>1
<1>3. <<n>> \in Seq(Int) /\ Len(<<n>>) = 1
  OBVIOUS
<1>4. QED
  BY <1>1, <1>2, <1>3 DEF IsValue, v

\* The values that Insert gives a row.
Inserted(vals0) == [i \in ColNums |-> IF AutoCol(i) THEN Number32(auto + 1) ELSE vals0[i]]

LEMMA InsertParts ==
  ASSUME TInv, NEW vals0 \in Inputs[def], Insert(vals0)
  PROVE  LET n == Len(rows)  row == BuildRow(Parsed, Inserted(vals0))
         IN /\ n \in Nat /\ DOMAIN rows = 1..n /\ DOMAIN rows' = 1..(n + 1) /\ def' = def
            /\ rows'[n + 1] = row /\ given'[n + 1] = Inserted(vals0)
            /\ \A r \in 1..n : rows'[r] = rows[r] /\ given'[r] = given[r]
            /\ WellFormed(Parsed, Inserted(vals0))
<1> DEFINE n == Len(rows)  vals == Inserted(vals0)  row == BuildRow(Parsed, vals)
<1>1. /\ ListOf(rows) /\ ListOf(given) /\ DOMAIN given = DOMAIN rows /\ n \in Nat
      /\ DOMAIN rows = 1..n /\ Len(given) = n
  <2>1. ListOf(rows) /\ ListOf(given) /\ DOMAIN given = DOMAIN rows
    BY DEF TInv, TypeOK
  <2>2. Len(rows) \in Nat /\ DOMAIN rows = 1..Len(rows) /\ Len(given) \in Nat /\ DOMAIN given = 1..Len(given)
    BY <2>1, ListParts
  <2>3. Len(given) = Len(rows)
    BY <2>1, <2>2
  <2>4. QED
    BY <2>1, <2>2, <2>3
<1>2. /\ rows' = Append(rows, row) /\ given' = Append(given, vals) /\ def' = def
  BY DEF Insert, Inserted, Commit
<1>3. DOMAIN Parsed = ColNums /\ def \in Schemas
  BY TransactionColumns
<1>4. WellFormed(Parsed, vals)
  <2>1. auto + 1 \in Nat
    BY BoundAssumption DEF TInv, TypeOK
  <2>2. \A i \in ColNums : IsValue(vals0[i])
    BY <1>3, InputAssumption DEF ColNums
  <2>3. \A i \in ColNums : IsValue(vals[i])
    BY <2>1, <2>2, NumberIsValue DEF Inserted
  <2> HIDE DEF vals
  <2>4. QED
    BY <1>3, <2>3 DEF WellFormed
<1> HIDE DEF row, vals
<1>6. /\ DOMAIN rows' = 1..(n + 1)
      /\ rows'[n + 1] = row /\ given'[n + 1] = vals
      /\ \A r \in 1..n : rows'[r] = rows[r] /\ given'[r] = given[r]
  BY <1>1, <1>2, ListAppend
<1>7. QED
  BY <1>1, <1>2, <1>4, <1>6 DEF row, vals

LEMMA InsertKept ==
  ASSUME RInv, NEW vals0 \in Inputs[def], Insert(vals0), TInv'
  PROVE  RowsKept'
<1> DEFINE n == Len(rows)  vals == Inserted(vals0)  row == BuildRow(Parsed, vals)
<1>1. /\ n \in Nat /\ DOMAIN rows = 1..n /\ DOMAIN rows' = 1..(n + 1) /\ def' = def
      /\ rows'[n + 1] = row /\ given'[n + 1] = vals
      /\ \A r \in 1..n : rows'[r] = rows[r] /\ given'[r] = given[r]
      /\ WellFormed(Parsed, vals)
  BY InsertParts DEF RInv
<1>2. Columned(Parsed) /\ Parsed' = Parsed
  BY <1>1, TransactionColumns, SameColumns DEF RInv
<1> HIDE DEF vals
<1>3. Kept(Parsed, row, vals)
  BY <1>1, <1>2, KeptNew
<1> HIDE DEF row
<1>4. ASSUME NEW r \in Live' PROVE Kept(Parsed, rows'[r], given'[r])
  <2>1. r \in 1..(n + 1) /\ rows'[r] # Gone
    BY <1>1 DEF Live
  <2>2. CASE r = n + 1
    BY <1>1, <1>3, <2>2
  <2>3. CASE r # n + 1
    <3>1. r \in 1..n
      BY <1>1, <2>1, <2>3
    <3>2. r \in Live
      BY <1>1, <2>1, <3>1 DEF Live
    <3>3. QED
      BY <1>1, <3>1, <3>2 DEF RInv, RowsKept
  <2>4. QED
    BY <2>2, <2>3
<1>5. QED
  BY <1>2, <1>4 DEF RowsKept

LEMMA UpdateKept ==
  ASSUME RInv, NEW R \in SUBSET Live, NEW set \in Sets[def], Update(R, set), TInv'
  PROVE  RowsKept'
<1> DEFINE C == DOMAIN set
           now(r) == [i \in ColNums |-> IF i \in C THEN set[i] ELSE Values(r)[i]]
           value(r) == [i \in ColNums |-> IF i \in C THEN set[i] ELSE given[r][i]]
<1>1. /\ rows' = [r \in DOMAIN rows |-> IF r \in R THEN BuildRow(Parsed, now(r)) ELSE rows[r]]
      /\ given' = [r \in DOMAIN rows |-> IF r \in R THEN value(r) ELSE given[r]]
      /\ def' = def
  BY DEF Update, Commit
<1>2. /\ Columned(Parsed) /\ DOMAIN Parsed = ColNums /\ Parsed' = Parsed /\ def \in Schemas
  BY <1>1, TransactionColumns, SameColumns DEF RInv
<1>3. \A i \in DOMAIN set : IsValue(set[i])
  BY <1>2, InputAssumption
<1>4. ASSUME NEW r \in R
      PROVE  Kept(Parsed, BuildRow(Parsed, now(r)), value(r))
  <2>1. Kept(Parsed, rows[r], given[r])
    BY DEF RInv, RowsKept
  <2>2. now(r) = Changed(Parsed, rows[r], set) /\ value(r) = GivenNow(Parsed, given[r], set)
    BY <1>2 DEF Changed, GivenNow, Values
  <2> HIDE DEF now, value
  <2>3. QED
    BY <1>2, <1>3, <2>1, <2>2, KeptChanged
<1> HIDE DEF now, value
<1>5. ASSUME NEW r \in Live' PROVE Kept(Parsed, rows'[r], given'[r])
  <2>1. r \in DOMAIN rows /\ rows'[r] # Gone
    BY <1>1 DEF Live
  <2>2. CASE r \in R
    BY <1>1, <1>4, <2>1, <2>2
  <2>3. CASE r \notin R
    <3>1. rows'[r] = rows[r] /\ given'[r] = given[r]
      BY <1>1, <2>1, <2>3
    <3>2. r \in Live
      BY <2>1, <3>1 DEF Live
    <3>3. QED
      BY <3>1, <3>2 DEF RInv, RowsKept
  <2>4. QED
    BY <2>2, <2>3
<1>6. QED
  BY <1>2, <1>5 DEF RowsKept

LEMMA DeleteKept ==
  ASSUME RInv, NEW R \in SUBSET Live, Delete(R), TInv'
  PROVE  RowsKept'
<1>1. /\ rows' = [r \in DOMAIN rows |-> IF r \in R THEN Gone ELSE rows[r]]
      /\ given' = [r \in DOMAIN rows |-> IF r \in R THEN Gone ELSE given[r]]
      /\ def' = def
  BY DEF Delete, Commit
<1>2. Parsed' = Parsed
  BY <1>1, SameColumns DEF RInv
<1>3. ASSUME NEW r \in Live' PROVE Kept(Parsed, rows'[r], given'[r])
  <2>1. r \in DOMAIN rows /\ rows'[r] # Gone
    BY <1>1 DEF Live
  <2>2. r \notin R /\ rows'[r] = rows[r] /\ given'[r] = given[r]
    BY <1>1, <2>1
  <2>3. r \in Live
    BY <2>1, <2>2 DEF Live
  <2>4. QED
    BY <2>2, <2>3 DEF RInv, RowsKept
<1>4. QED
  BY <1>2, <1>3 DEF RowsKept

LEMMA InitKept == Init => RInv
<1> SUFFICES ASSUME Init PROVE RInv
  OBVIOUS
<1>1. TInv
  BY InitTyped
<1>2. Live = {}
  BY DEF Init, Live
<1>3. QED
  BY <1>1, <1>2 DEF RInv, RowsKept

LEMMA StepKept == RInv /\ [Next]_vars => RInv'
<1> SUFFICES ASSUME RInv, [Next]_vars PROVE RInv'
  OBVIOUS
<1>1. TInv'
  BY StepTyped DEF RInv
<1>2. CASE \E vals \in Inputs[def] : Insert(vals)
  BY <1>1, <1>2, InsertKept DEF RInv
<1>3. CASE \E R \in SUBSET Live \ {{}}, set \in Sets[def] : Update(R, set)
  BY <1>1, <1>3, UpdateKept DEF RInv
<1>4. CASE \E R \in SUBSET Live \ {{}} : Delete(R)
  BY <1>1, <1>4, DeleteKept DEF RInv
<1>5. CASE Reopen \/ UNCHANGED vars
  <2>1. page' = page /\ rows' = rows /\ given' = given
    BY <1>5 DEF Reopen, vars
  <2>2. Live' = Live /\ Parsed' = Parsed
    BY <2>1 DEF Live, Parsed
  <2>3. QED
    BY <1>1, <2>1, <2>2 DEF RInv, RowsKept
<1>6. QED
  BY <1>1, <1>2, <1>3, <1>4, <1>5, Zenon DEF Next

\* A value of a kind that its column has a representation for reads back as it was given,
\* in the column's own kind, however rows are inserted, updated and deleted around it and the
\* database reopened: buildRowData and parseRowAt agree (row.go:531, row.go:122).
THEOREM ReadsTrue == Spec => []ReadsAsGiven
<1>1. RInv => ReadsAsGiven
  <2>1. SUFFICES ASSUME RInv, Roomy, NEW r \in Live, NEW i \in ColNums,
                        IsExact(def.cols[i].type, given[r][i])
                 PROVE  Values(r)[i] = Canonical(def.cols[i].type, given[r][i])
    BY DEF ReadsAsGiven, Canonical
  <2>2. /\ DOMAIN Parsed = ColNums /\ Parsed[i].type = def.cols[i].type
        /\ def \in Schemas /\ Parsed = Shape(Columns(def))
    BY <2>1, TransactionColumns DEF RInv
  <2>3. Apart(Parsed)
    BY <2>1, <2>2, RoomyApart
  <2>4. Faithful(Parsed, rows[r], given[r], i)
    BY <2>1, <2>2 DEF RInv, RowsKept, Kept
  <2>5. QED
    BY <2>1, <2>2, <2>3, <2>4 DEF Faithful, Values
<1>2. QED
  BY <1>1, InitKept, StepKept, PTL DEF Spec

\* Every column of a row holds a value.
Valued(row) == \A c \in DOMAIN row : IsValue(row[c])

LEMMA ValuedNumbers ==
  ASSUME NEW row, Valued(row), NEW order,
         \A k \in DOMAIN order : Col(row, order[k].col).go \in Floats
  PROVE  Numbers(row, order)
<1> SUFFICES ASSUME NEW k \in DOMAIN order
             PROVE  LET c == Col(row, order[k].col)
                    IN c.go \in Floats /\ c.s = <<c.s[1]>> /\ c.s[1] \in Int
  BY Zenon DEF Numbers
<1> DEFINE o == order[k].col  c == Col(row, o)
<1>1. c.go \in Floats
  OBVIOUS
<1>2. IsValue(c)
  <2>1. c # Nil
    BY <1>1 DEF Nil, Floats
  <2>2. o \in DOMAIN row /\ c = row[o]
    BY <2>1 DEF Col
  <2> HIDE DEF o, c
  <2>3. QED
    BY <2>2 DEF Valued
<1> HIDE DEF c
<1>3. c.go \notin {"nil", "string", "bytes"}
  BY <1>1 DEF Floats
<1>4. c.s \in Seq(Int) /\ Len(c.s) = 1
  BY <1>2, <1>3 DEF IsValue
<1>5. c.s = <<c.s[1]>> /\ c.s[1] \in Int
  BY <1>4
<1>6. QED
  BY <1>1, <1>5 DEF c

LEMMA ProjectValued == ASSUME NEW row, Valued(row), NEW F PROVE Valued(Project(row, F))
<1>1. IsValue(Nil)
  BY DEF IsValue, Nil
<1>2. QED
  BY <1>1 DEF Valued, Project

\* The rows that a scan shows.
Shown == {ParseRow(Parsed, row) : row \in Range(rows) \ {Gone}}

LEMMA ScanRows ==
  ASSUME RInv
  PROVE  Scan \in Seq(Shown) /\ \A w \in Shown : Valued(w)
<1> DEFINE S == Range(rows)  live == Without(rows, {Gone})  n == Len(live)
<1>1. rows \in Seq(S)
  BY DEF RInv, TInv, ListOf
<1>2. live \in Seq(S \ {Gone})
  <2> HIDE DEF S
  <2>1. QED
    BY <1>1, WithoutSeq
<1>3. n \in Nat /\ DOMAIN live = 1..n /\ \A i \in 1..n : live[i] \in S \ {Gone}
  <2> HIDE DEF S, live
  <2>1. QED
    BY <1>2, SeqParts
<1>4. Scan = [i \in 1..n |-> ParseRow(Parsed, live[i])]
  BY <1>3 DEF Scan
<1>5. Scan \in Seq(Shown)
  <2>1. Scan = [i \in 1..n |-> Scan[i]] /\ \A i \in 1..n : Scan[i] \in Shown
    <3> HIDE DEF live
    <3>1. \A i \in 1..n : ParseRow(Parsed, live[i]) \in Shown
      BY <1>3 DEF Shown
    <3>2. QED
      BY <1>4, <3>1
  <2>2. QED
    BY <1>3, <2>1, SeqMade, Zenon
<1>6. ASSUME NEW w \in Shown PROVE Valued(w)
  <2>1. PICK row \in S \ {Gone} : w = ParseRow(Parsed, row)
    BY DEF Shown
  <2>2. PICK r \in DOMAIN rows : row = rows[r]
    BY <2>1 DEF Range
  <2>3. r \in Live
    BY <2>1, <2>2 DEF Live
  <2>4. PICK v : WellFormed(Parsed, v) /\ Built(Parsed, v, row)
    BY <2>2, <2>3 DEF RInv, RowsKept, Kept, BuiltOf
  <2>5. Columned(Parsed)
    BY TransactionColumns DEF RInv
  <2>6. \A i \in DOMAIN Parsed : IsValue(ParseRow(Parsed, row)[i])
    BY <2>4, <2>5, RowRoundTrip DEF ReadsBack
  <2>7. QED
    BY <2>1, <2>6, ParseParts DEF Valued
<1>7. QED
  BY <1>5, <1>6

LEMMA PageRows ==
  ASSUME NEW S, NEW s \in Seq(S), NEW q, q.offset \in Nat, q.limit \in Int
  PROVE  Page(s, q) \in Seq(S)
<1> DEFINE X == {r \in Range(s) : ~ Matches(r, q.where)}
           hits == Without(s, X)  n == Len(hits)  o == q.offset
           last == IF q.limit < 0 THEN n ELSE Min({n, o + q.limit})
<1>1. hits \in Seq(S \ X)
  <2> HIDE DEF X
  <2>1. QED
    BY WithoutSeq
<1>2. n \in Nat /\ hits \in Seq(S)
  <2>1. n \in Nat /\ hits = [i \in 1..n |-> hits[i]] /\ \A i \in 1..n : hits[i] \in S \ X
    <3> HIDE DEF X, hits
    <3>1. QED
      BY <1>1, SeqParts
  <2>2. \A i \in 1..n : hits[i] \in S
    BY <2>1
  <2> HIDE DEF hits
  <2>3. QED
    BY <2>1, <2>2, SeqMade
<1> DEFINE l == q.limit
<1> HIDE DEF hits
<1> HIDE DEF l, n, o
<1>3. o \in Nat /\ l \in Int /\ n \in Nat
  BY <1>2 DEF l, o, n
<1>4. last \in Int /\ last <= n
  <2>1. CASE l < 0
    BY <1>3, <2>1 DEF l
  <2>2. CASE ~ l < 0
    <3> DEFINE T == {n, o + l}
    <3>1. \E x \in T : \A y \in T : x <= y
      BY <1>3
    <3>2. Min(T) \in T /\ \A y \in T : Min(T) <= y
      <4> HIDE DEF T
      <4>1. QED
        BY <3>1 DEF Min
    <3>3. last = Min(T)
      BY <2>2 DEF l
    <3> DEFINE m == Min(T)
    <3>4. m \in {n, o + l} /\ m <= n
      BY <3>2
    <3> HIDE DEF m
    <3>5. m \in Int /\ m <= n
      BY <1>3, <3>4
    <3>6. QED
      BY <3>3, <3>5 DEF m
  <2>3. QED
    BY <2>1, <2>2
<1>5. Page(s, q) = SubSeq(hits, o + 1, last)
  BY DEF Page, hits, n, o
<1> HIDE DEF last
<1>6. SubSeq(hits, o + 1, last) \in Seq(S)
  BY <1>2, <1>3, <1>4 DEF n
<1>7. QED
  BY <1>5, <1>6

\* ORDER BY orders the rows that OFFSET and LIMIT leave by the numbers of their columns, and
\* loses and repeats none of them, whichever rows the table has: Execute projects before
\* sortResults swaps neighbours (query.go:114, 350).
THEOREM OrderTrue == Spec => []OrderedByNumbers
<1>1. ASSUME RInv, NEW q \in Queries
      PROVE  LET out == Execute(Scan, q)  taken == Page(Scan, q)
             IN /\ \A row \in Range(out) :
                     Cardinality({i \in DOMAIN out : out[i] = row})
                       = Cardinality({i \in DOMAIN taken : Project(taken[i], q.fields) = row})
                /\ Len(out) = Len(taken)
                /\ (\A i \in DOMAIN out, k \in DOMAIN q.order : Col(out[i], q.order[k].col).go \in Floats) =>
                     \A i, j \in DOMAIN out : i < j => InOrder(out[i], out[j], q.order)
  <2> DEFINE taken == Page(Scan, q)  n == Len(taken)  out == Execute(Scan, q)
             shown == [i \in DOMAIN taken |-> Project(taken[i], q.fields)]
  <2>1. q.offset \in Nat /\ q.limit \in Int /\ q.order \in Orders
    BY QueryAssumption DEF Orders
  <2>2. Scan \in Seq(Shown) /\ \A w \in Shown : Valued(w)
    BY <1>1, ScanRows
  <2>3. taken \in Seq(Shown)
    BY <2>1, <2>2, PageRows
  <2>4. n \in Nat /\ DOMAIN taken = 1..n /\ \A i \in 1..n : taken[i] \in Shown
    <3> HIDE DEF taken
    <3>1. QED
      BY <2>3, SeqParts
  <2>5. shown = [i \in 1..n |-> shown[i]] /\ \A i \in 1..n : shown[i] = Project(taken[i], q.fields)
    BY <2>4
  <2>6. \A i \in 1..n : Valued(shown[i])
    BY <2>2, <2>4, <2>5, ProjectValued
  <2>7. out = IF q.order = <<>> THEN shown ELSE Sorted(shown, q.order)
    BY DEF Execute
  <2> HIDE DEF shown, out, taken
  <2> HIDE DEF n
  <2>8. Rearranged(shown, out, n)
    <3>1. CASE q.order = <<>>
      BY <2>4, <2>5, <2>7, <3>1, RearrangedSelf
    <3>2. CASE q.order # <<>>
      BY <2>4, <2>5, <2>7, <3>2, SortRearranges
    <3>3. QED
      BY <3>1, <3>2
  <2>9. Len(out) = n /\ DOMAIN out = 1..n
    <3>1. Len(out) = n
      BY <2>4, <2>8, RearrangedLen
    <3>2. out = [i \in 1..n |-> out[i]]
      BY <2>8 DEF Rearranged
    <3>3. QED
      BY <3>1, <3>2
  <2>10. ASSUME NEW row
         PROVE  Cardinality({i \in DOMAIN out : out[i] = row})
                  = Cardinality({i \in DOMAIN taken : Project(taken[i], q.fields) = row})
    <3>1. Often(out, n, row) = Often(shown, n, row)
      BY <2>4, <2>8, RearrangedCounts
    <3>2. {i \in 1..n : shown[i] = row} = {i \in DOMAIN taken : Project(taken[i], q.fields) = row}
      BY <2>4, <2>5
    <3>3. QED
      BY <2>9, <3>1, <3>2, Zenon DEF Often
  <2>11. ASSUME \A i \in DOMAIN out, k \in DOMAIN q.order : Col(out[i], q.order[k].col).go \in Floats
         PROVE  \A i, j \in DOMAIN out : i < j => InOrder(out[i], out[j], q.order)
    <3>1. CASE q.order = <<>>
      <4>1. DOMAIN q.order = {}
        BY <3>1
      <4>2. QED
        BY <4>1 DEF InOrder
    <3>2. CASE q.order # <<>>
      <4>1. PICK p \in Bijection(1..n, 1..n) : \A i \in 1..n : out[i] = shown[p[i]]
        BY <2>8 DEF Rearranged
      <4>2. ASSUME NEW j \in 1..n PROVE Numbers(shown[j], q.order)
        <5>1. PICK i \in 1..n : p[i] = j
          BY <4>1 DEF Bijection, Surjection
        <5>2. shown[j] = out[i]
          BY <4>1, <5>1
        <5>3. \A k \in DOMAIN q.order : Col(shown[j], q.order[k].col).go \in Floats
          BY <2>9, <2>11, <5>2
        <5>4. QED
          BY <2>6, <5>3, ValuedNumbers
      <4>3. \A i, j \in 1..n : i < j => InOrder(Sorted(shown, q.order)[i], Sorted(shown, q.order)[j], q.order)
        BY <2>1, <2>4, <2>5, <4>2, SortSettles, Zenon
      <4>4. QED
        BY <2>7, <2>9, <3>2, <4>3
    <3>3. QED
      BY <3>1, <3>2
  <2>12. Len(out) = Len(taken)
    BY <2>9 DEF n
  <2>13. QED
    BY <2>10, <2>11, <2>12, Zenon DEF out, taken
<1>2. RInv => OrderedByNumbers
  BY <1>1 DEF OrderedByNumbers
<1>3. QED
  BY <1>2, InitKept, StepKept, PTL DEF Spec
-----------------------------------------------------------------------------
(* The keys of numbers *)

LEMMA DivParts ==
  ASSUME NEW x \in Int, NEW p \in Nat \ {0}
  PROVE  /\ x = p * (x \div p) + (x % p) /\ x \div p \in Int /\ x % p \in Int
         /\ 0 <= x % p /\ x % p < p
OBVIOUS

LEMMA Quotient ==
  ASSUME NEW x \in Int, NEW p \in Nat \ {0}, NEW q \in Int, NEW r \in 0..(p - 1), x = p * q + r
  PROVE  x \div p = q /\ x % p = r
<1> DEFINE a == x \div p  b == x % p
<1>1. x = p * a + b /\ a \in Int /\ b \in Int /\ 0 <= b /\ b < p
  BY DivParts
<1> HIDE DEF a, b
<1>2. p * (a - q) = r - b
  <2>1. p * (a - q) = p * a - p * q
    BY <1>1
  <2> DEFINE u == p * a  v == p * q
  <2>2. u \in Int /\ v \in Int /\ u + b = v + r
    BY <1>1
  <2> HIDE DEF u, v
  <2>3. u - v = r - b
    BY <1>1, <2>2
  <2>4. QED
    BY <2>1, <2>3 DEF u, v
<1>3. a = q
  <2> DEFINE k == a - q
  <2>1. k \in Int /\ p * k = r - b
    BY <1>1, <1>2
  <2> HIDE DEF k
  <2>2. ~ k >= 1
    <3>1. SUFFICES ASSUME k >= 1 PROVE FALSE
      OBVIOUS
    <3>2. p * k >= p
      BY <2>1, <3>1
    <3>3. QED
      BY <1>1, <2>1, <3>2
  <2>3. ~ k <= -1
    <3>1. SUFFICES ASSUME k <= -1 PROVE FALSE
      OBVIOUS
    <3>2. p * k <= - p
      BY <2>1, <3>1
    <3>3. QED
      BY <1>1, <2>1, <3>2
  <2>4. k = 0
    BY <2>1, <2>2, <2>3
  <2>5. QED
    BY <1>1, <2>4 DEF k
<1>4. b = r
  <2> DEFINE v == p * q
  <2>1. v \in Int /\ v + b = v + r
    BY <1>1, <1>3
  <2> HIDE DEF v
  <2>2. QED
    BY <1>1, <2>1
<1>5. QED
  BY <1>3, <1>4 DEF a, b

LEMMA DivShift ==
  ASSUME NEW x \in Int, NEW p \in Nat \ {0}, NEW c \in Int
  PROVE  (x + c * p) \div p = (x \div p) + c /\ (x + c * p) % p = x % p
<1> DEFINE a == x \div p  b == x % p  y == x + c * p
<1>1. x = p * a + b /\ a \in Int /\ b \in 0..(p - 1)
  BY DivParts
<1> HIDE DEF a, b
<1>2. y = p * (a + c) + b /\ y \in Int
  BY <1>1
<1> HIDE DEF y
<1>3. y \div p = a + c /\ y % p = b
  <2> DEFINE q == a + c
  <2>1. q \in Int /\ y = p * q + b
    BY <1>1, <1>2
  <2> HIDE DEF q
  <2>2. y \div p = q /\ y % p = b
    BY <1>1, <1>2, <2>1, Quotient
  <2>3. QED
    BY <2>2 DEF q
<1>4. QED
  BY <1>3 DEF a, b, y

Congruent(x, y, p) == x % p = y % p

Shift(u, x, c) == u = x + c

LEMMA ModShift ==
  ASSUME NEW u \in Int, NEW v \in Int, NEW p \in Nat \ {0}, Congruent(u, v, p),
         NEW x \in Int, NEW y \in Int, NEW c \in Int, Shift(u, x, c), Shift(v, y, c)
  PROVE  Congruent(x, y, p)
<1>0. u = x + c /\ v = y + c
  BY DEF Shift
<1> DEFINE a == u \div p  b == v \div p  r == u % p
<1>1. u = p * a + r /\ v = p * b + r /\ a \in Int /\ b \in Int /\ r \in Int
  BY DivParts DEF Congruent
<1> HIDE DEF a, b, r
<1>2. x = y + (a - b) * p
  <2>1. (a - b) * p = p * a - p * b
    BY <1>1
  <2> DEFINE s == p * a  t == p * b  w == (a - b) * p
  <2>2. s \in Int /\ t \in Int /\ u = s + r /\ v = t + r /\ w = s - t
    BY <1>1, <2>1
  <2> HIDE DEF s, t, w
  <2>3. x = y + w
    BY <1>0, <1>1, <2>2
  <2>4. QED
    BY <2>3 DEF w
<1> DEFINE k == a - b
<1>3. k \in Int /\ x = y + k * p
  BY <1>1, <1>2
<1> HIDE DEF k
<1>4. QED
  BY <1>3, DivShift, Zenon DEF Congruent

\* A higher power is a multiple of a lower one.
LEMMA PowerDivides ==
  ASSUME NEW k \in 0..8, NEW i \in 0..k
  PROVE  \E c \in Nat : Power[k] = c * Power[i]
<1> DEFINE Multiple(m, n) == \E c \in Nat : Power[m] = c * Power[n]
           P == {m \in Nat : m <= 8 => \A n \in 0..m : Multiple(m, n)}
<1>1. \A m \in 0..8 : Power[m] \in Nat
  BY PowerFacts
<1>2. \A m \in 0..8 : Multiple(m, m)
  <2>1. ASSUME NEW m \in 0..8 PROVE Multiple(m, m)
    <3>1. Power[m] = 1 * Power[m]
      BY <1>1
    <3>2. QED
      BY <3>1
  <2>2. QED
    BY <2>1
<1>3. 0 \in P
  BY <1>2
<1>4. ASSUME NEW m \in Nat, m \in P PROVE m + 1 \in P
  <2>1. SUFFICES ASSUME m + 1 <= 8, NEW n \in 0..(m + 1) PROVE Multiple(m + 1, n)
    OBVIOUS
  <2>2. CASE n = m + 1
    BY <1>2, <2>1, <2>2
  <2>3. CASE n # m + 1
    <3>1. n \in 0..m /\ n \in 0..8 /\ m \in 0..8 /\ m + 1 \in 0..8
      BY <2>1, <2>3
    <3>2. PICK c \in Nat : Power[m] = c * Power[n]
      BY <1>4, <2>1, <3>1
    <3>3. Power[m + 1] = Base * Power[m]
      <4>1. m + 1 \in 1..8 /\ (m + 1) - 1 = m
        BY <3>1
      <4>2. QED
        BY <4>1, PowerFacts
    <3>4. Base * c \in Nat /\ Power[m + 1] = (Base * c) * Power[n]
      <4> DEFINE a == Power[m]  b == Power[n]
      <4>1. a \in Nat /\ b \in Nat /\ a = c * b
        BY <1>1, <3>1, <3>2
      <4> HIDE DEF a, b
      <4>2. Base * a = (Base * c) * b
        BY <4>1, BaseFacts
      <4>3. QED
        BY <3>3, <4>2, BaseFacts DEF a, b
    <3>5. QED
      BY <3>4
  <2>4. QED
    BY <2>2, <2>3
<1>5. k \in P
  <2> HIDE DEF P
  <2>1. QED
    BY <1>3, <1>4, ByCondition!Inductive
<1>6. QED
  BY <1>5

\* A function over the first numbers, as the code's byte slices are.
Long(s, n) == s = [i \in 1..n |-> s[i]]

LEMMA ReverseFacts ==
  ASSUME NEW n \in Nat, NEW s, Long(s, n)
  PROVE  Long(Reverse(s), n) /\ \A i \in 1..n : Reverse(s)[i] = s[(n - i) + 1]
<1>1. Len(s) = n
  BY DEF Long
<1>2. Reverse(s) = [i \in 1..n |-> s[(n - i) + 1]]
  BY <1>1 DEF Reverse
<1>3. QED
  BY <1>2, Zenon DEF Long

LEMMA ReverseTells ==
  ASSUME NEW n \in Nat, NEW s, NEW t, Long(s, n), Long(t, n), Reverse(s) = Reverse(t)
  PROVE  s = t
<1>1. ASSUME NEW i \in 1..n PROVE s[i] = t[i]
  <2> DEFINE j == (n - i) + 1
  <2>1. j \in 1..n /\ (n - j) + 1 = i
    OBVIOUS
  <2> HIDE DEF j
  <2>2. Reverse(s)[j] = s[(n - j) + 1] /\ Reverse(t)[j] = t[(n - j) + 1]
    BY <2>1, ReverseFacts
  <2>3. QED
    BY <2>1, <2>2
<1>2. s = [i \in 1..n |-> s[i]] /\ t = [i \in 1..n |-> t[i]]
  BY DEF Long
<1>3. [i \in 1..n |-> s[i]] = [i \in 1..n |-> t[i]]
  BY <1>1
<1>4. QED
  BY <1>2, <1>3

\* Half of the numbers of k bytes, in units of any lower byte.
LEMMA HalfPower ==
  ASSUME NEW z \in 1..8, NEW j \in 1..z
  PROVE  \E c \in Int : Power[z] \div 2 = c * Power[j - 1]
<1> DEFINE b == Base \div 2  p == Power[z - 1]
<1>1. b \in Nat /\ Base = 2 * b
  BY ValueAssumption
<1>2. z - 1 \in 0..8 /\ j - 1 \in 0..(z - 1) /\ j - 1 \in 0..8
  OBVIOUS
<1>3. p \in Nat /\ Power[z] = Base * p
  BY <1>2, PowerFacts
<1>4. PICK c \in Nat : p = c * Power[j - 1]
  BY <1>2, PowerDivides
<1> HIDE DEF b, p
<1>5. Power[z] \div 2 = b * p
  <2> DEFINE q == b * p
  <2>1. q \in Nat /\ Power[z] = 2 * q
    BY <1>1, <1>3
  <2> HIDE DEF q
  <2>2. (2 * q) \div 2 = q
    BY <2>1
  <2>3. QED
    BY <2>1, <2>2 DEF q
<1>6. b * p = (b * c) * Power[j - 1] /\ b * c \in Int
  <2> DEFINE q == Power[j - 1]
  <2>1. q \in Nat /\ p = c * q
    BY <1>2, <1>4, PowerFacts
  <2> HIDE DEF q
  <2>2. b * p = (b * c) * q
    BY <1>1, <2>1
  <2>3. QED
    BY <1>1, <2>2 DEF q
<1>7. QED
  BY <1>5, <1>6

\* Flipping the sign leaves every byte but the last alone, and of that the low bits.
LEMMA ShiftedBytes ==
  ASSUME NEW t \in Types, ~ Variable(t), NEW x \in Int, NEW y \in Int,
         Bytes(t, x + (Power[Size[t]] \div 2)) = Bytes(t, y + (Power[Size[t]] \div 2))
  PROVE  Bytes(t, x) = Bytes(t, y)
<1> DEFINE z == Size[t]  h == Power[z] \div 2
<1>1. z \in 1..8
  BY KindTables
<1>2. h \in Int
  <2>1. Power[z] \in Nat
    BY <1>1, PowerFacts
  <2> DEFINE p == Power[z]
  <2>2. p \in Nat
    BY <2>1
  <2> HIDE DEF p
  <2>3. p \div 2 \in Int
    BY <2>2
  <2>4. QED
    BY <2>3 DEF p
<1>3. ASSUME NEW j \in 1..z
      PROVE  (x \div Power[j - 1]) % Base = (y \div Power[j - 1]) % Base
  <2> DEFINE p == Power[j - 1]
  <2>1. p \in Nat \ {0}
    <3>1. j - 1 \in 0..8
      BY <1>1
    <3>2. QED
      BY <3>1, PowerFacts
  <2>2. PICK c \in Int : h = c * p
    BY <1>1, HalfPower
  <2>3. ((x + h) \div p) % Base = ((y + h) \div p) % Base
    <3>1. Bytes(t, x + h)[j] = ((x + h) \div p) % Base /\ Bytes(t, y + h)[j] = ((y + h) \div p) % Base
      BY DEF Bytes
    <3>2. QED
      BY <3>1
  <2> HIDE DEF p, h
  <2>4. (x + h) \div p = (x \div p) + c /\ (y + h) \div p = (y \div p) + c
    BY <2>1, <2>2, DivShift
  <2> DEFINE u == x \div p  v == y \div p
  <2>5. u \in Int /\ v \in Int
    BY <2>1, DivParts
  <2>6. PICK a, b : Shift(a, u, c) /\ Shift(b, v, c)
    BY DEF Shift
  <2>7. a \in Int /\ b \in Int /\ Congruent(a, b, Base) /\ Base \in Nat \ {0}
    BY <2>3, <2>4, <2>5, <2>6, BaseFacts DEF Congruent, Shift
  <2> HIDE DEF u, v
  <2>8. Congruent(u, v, Base)
    BY <2>5, <2>6, <2>7, ModShift
  <2>9. QED
    BY <2>8 DEF u, v, p, Congruent
<1>4. QED
  BY <1>3 DEF Bytes

NumberKey(t, n) == IF t \in {"Boolean", "Byte"} THEN <<n % Base>> ELSE SignFlipped(t, n)

\* Of the numbers that a column can hold, each has a key of its own.
LEMMA NumberKeyTells ==
  ASSUME NEW t \in Types, ~ Variable(t), NEW x \in Int, NEW y \in Int, InRange(t, x), InRange(t, y),
         NumberKey(t, x) = NumberKey(t, y)
  PROVE  x = y
<1>1. Bytes(t, x) = Bytes(t, y)
  <2>1. CASE t \in {"Boolean", "Byte"}
    <3>1. Size[t] = 1
      BY <2>1 DEF Size
    <3>2. x % Base = y % Base
      BY <2>1 DEF NumberKey
    <3>3. Power[0] = 1 /\ x \div 1 = x /\ y \div 1 = y
      BY PowerFacts
    <3>4. \A j \in 1..1 : (x \div Power[j - 1]) % Base = (y \div Power[j - 1]) % Base
      BY <3>2, <3>3
    <3>5. QED
      BY <3>1, <3>4 DEF Bytes
  <2>2. CASE t \notin {"Boolean", "Byte"}
    <3> DEFINE h == Power[Size[t]] \div 2  a == Bytes(t, x + h)  b == Bytes(t, y + h)
    <3>1. Reverse(a) = Reverse(b)
      BY <2>2 DEF NumberKey, SignFlipped
    <3>2. Long(a, Size[t]) /\ Long(b, Size[t]) /\ Size[t] \in Nat
      BY KindTables DEF Bytes, Long
    <3> HIDE DEF a, b
    <3>3. a = b
      BY <3>1, <3>2, ReverseTells
    <3>4. QED
      BY <3>3, ShiftedBytes DEF a, b
  <2>3. QED
    BY <2>1, <2>2
<1>2. FromBytes(t, Bytes(t, x)) = x /\ FromBytes(t, Bytes(t, y)) = y
  BY DEF InRange
<1>3. QED
  BY <1>1, <1>2

LEMMA NumberKeyInts ==
  ASSUME NEW t \in Types, ~ Variable(t), NEW x \in Int
  PROVE  NumberKey(t, x) \in Seq(Int)
<1>1. CASE t \in {"Boolean", "Byte"}
  <2>1. x % Base \in Int
    BY BaseFacts
  <2>2. QED
    BY <1>1, <2>1 DEF NumberKey
<1>2. CASE t \notin {"Boolean", "Byte"}
  <2> DEFINE z == Size[t]  h == Power[z] \div 2  a == Bytes(t, x + h)
  <2>1. z \in 1..8
    BY KindTables
  <2>2. x + h \in Int
    <3> DEFINE p == Power[z]
    <3>1. p \in Nat
      BY <2>1, PowerFacts
    <3> HIDE DEF p
    <3>2. x + (p \div 2) \in Int
      BY <3>1
    <3>3. QED
      BY <3>2 DEF p
  <2> DEFINE q == x + h
  <2> HIDE DEF q
  <2>3. Bytes(t, q) \in Cells(t) /\ q \in Int
    BY <2>2, BytesFacts DEF q
  <2>4. \A j \in 1..z : a[j] \in Int
    BY <2>3, Zenon DEF Cells, q
  <2>5. Long(a, z) /\ z \in Nat
    BY <2>1 DEF Bytes, Long
  <2>6. Long(Reverse(a), z) /\ \A i \in 1..z : Reverse(a)[i] = a[(z - i) + 1]
    <3> HIDE DEF a, z
    <3>1. QED
      BY <2>5, ReverseFacts
  <2> DEFINE r == Reverse(a)
  <2>7. \A i \in 1..z : r[i] \in Int
    <3> HIDE DEF a, z
    <3>1. \A i \in 1..z : (z - i) + 1 \in 1..z
      BY <2>5
    <3>2. QED
      BY <2>4, <2>6, <3>1
  <2>8. r \in Seq(Int)
    <3>1. r = [i \in 1..z |-> r[i]]
      BY <2>6 DEF Long
    <3> HIDE DEF r, z
    <3>2. QED
      BY <2>5, <2>7, <3>1, SeqMade
  <2>9. NumberKey(t, x) = r
    BY <1>2 DEF NumberKey, SignFlipped
  <2>10. QED
    BY <2>8, <2>9
<1>3. QED
  BY <1>1, <1>2
-----------------------------------------------------------------------------
(* The keys of values *)

LEMMA KeyTables ==
  ASSUME NEW t \in Types
  PROVE  /\ Exact[t] \subseteq Keyed[t] /\ Native[t] \in Keyed[t]
         /\ ~ Variable(t) => Keyed[t] \cap {"nil", "string", "bytes"} = {}
<1>1. /\ Writes["Boolean"] = {"bool"}
      /\ Writes["Byte"] = {"byte", "int"}
      /\ Writes["Int"] = {"int16", "int", "int32"}
      /\ Writes["LongInt"] = {"int32", "int", "int64"}
      /\ Writes["BigInt"] = {"int64", "int", "int32"}
      /\ Writes["Money"] = {"float64", "float32", "int"}
      /\ Writes["Float"] = {"float32", "float64"}
      /\ Writes["Double"] = {"float64", "float32"}
      /\ Writes["DateTime"] = {"time"}
      /\ Writes["Text"] = {"string", "bytes"}
      /\ Writes["Binary"] = {"bytes"}
  BY DEF Writes, Accepts
<1>2. Types = DOMAIN Writes
  BY DEF Writes, Accepts, Types, Size
<1>3. /\ Keyed["Boolean"] = Writes["Boolean"]
      /\ Keyed["Byte"] = {"byte", "int", "int64"}
      /\ Keyed["Int"] = {"int16", "int", "int32", "int64"}
      /\ Keyed["LongInt"] = {"int32", "int", "int64", "uint32"}
      /\ Keyed["BigInt"] = {"int64", "int"}
      /\ Keyed["Money"] = Writes["Money"]
      /\ Keyed["Float"] = {"float32", "float64", "int"}
      /\ Keyed["Double"] = {"float64", "float32", "int"}
      /\ Keyed["DateTime"] = Writes["DateTime"]
      /\ Keyed["Text"] = {"string"}
      /\ Keyed["Binary"] = Writes["Binary"]
  BY <1>2, TypeNames DEF Keyed
<1>4. /\ Exact["Boolean"] = {"bool"}
      /\ Exact["Byte"] = {"byte", "int"}
      /\ Exact["Int"] = {"int16", "int", "int32"}
      /\ Exact["LongInt"] = {"int32", "int", "int64"}
      /\ Exact["BigInt"] = {"int64", "int"}
      /\ Exact["Money"] = {"float64", "float32", "int"}
      /\ Exact["Float"] = {"float32", "float64"}
      /\ Exact["Double"] = {"float64", "float32"}
      /\ Exact["DateTime"] = {"time"}
      /\ Exact["Text"] = {"string"}
      /\ Exact["Binary"] = {"bytes"}
  BY DEF Exact
<1>5. Exact[t] \subseteq Keyed[t]
  BY <1>1, <1>3, <1>4, TypeNames
<1>6. ~ Variable(t) => Keyed[t] \cap {"nil", "string", "bytes"} = {}
  BY <1>1, <1>3, TypeNames DEF Variable
<1>7. Native[t] \in Exact[t]
  BY KindTables
<1>8. QED
  BY <1>5, <1>6, <1>7

\* The key of a content of a kind that has one.
KeyFor(t, s) == IF ~ Variable(t) THEN NumberKey(t, s[1]) ELSE IF t = "Text" THEN Lower(s) ELSE s

LEMMA KeyContent ==
  ASSUME NEW t \in Types, NEW v, v.go \in Keyed[t]
  PROVE  KeyOf(t, v) = KeyFor(t, v.s)
BY DEF KeyOf, KeyFor, NumberKey, Number, Variable

LEMMA LowerInts ==
  ASSUME NEW s \in Seq(Int)
  PROVE  Lower(s) \in Seq(Int)
<1> DEFINE n == Len(s)  l == Lower(s)
<1>1. n \in Nat /\ DOMAIN s = 1..n /\ \A i \in 1..n : s[i] \in Int
  BY SeqParts
<1>2. l = [i \in 1..n |-> l[i]] /\ \A i \in 1..n : l[i] \in Int
  BY <1>1 DEF Lower
<1> HIDE DEF l, n
<1>3. l \in Seq(Int)
  BY <1>1, <1>2, SeqMade
<1>4. QED
  BY <1>3 DEF l

LEMMA KeyInts ==
  ASSUME NEW t \in Types, NEW v, IsValue(v)
  PROVE  KeyOf(t, v) \in Seq(Int)
<1>1. v.s \in Seq(Int)
  BY DEF IsValue
<1>2. CASE v.go \in Keyed[t]
  <2>1. CASE Variable(t)
    BY <1>1, <1>2, <2>1, KeyContent, LowerInts DEF KeyFor
  <2>2. CASE ~ Variable(t)
    <3>1. Len(v.s) = 1
      BY <1>2, <2>2, KeyTables DEF IsValue
    <3> DEFINE q == v.s
    <3>2. q \in Seq(Int) /\ Len(q) = 1
      BY <1>1, <3>1
    <3> HIDE DEF q
    <3>3. q[1] \in Int
      BY <3>2
    <3>4. NumberKey(t, q[1]) \in Seq(Int)
      BY <2>2, <3>3, NumberKeyInts
    <3>5. QED
      BY <1>2, <2>2, <3>4, KeyContent DEF KeyFor, q
  <2>3. QED
    BY <2>1, <2>2
<1>3. CASE v.go \notin Keyed[t]
  <2>1. CASE Variable(t)
    <3>1. KeyOf(t, v) = <<>>
      BY <1>3, <2>1 DEF KeyOf
    <3>2. QED
      BY <3>1
  <2>2. CASE ~ Variable(t)
    <3>1. KeyOf(t, v) = NumberKey(t, 0)
      BY <1>3, <2>2 DEF KeyOf, NumberKey
    <3>2. QED
      BY <2>2, <3>1, NumberKeyInts
  <2>3. QED
    BY <2>1, <2>2
<1>4. QED
  BY <1>2, <1>3

\* Whether two values count as the same for an index.
SameContent(t, a, b) == IF t = "Text" THEN Lower(a.s) = Lower(b.s) ELSE a.s = b.s

LEMMA KeyTells ==
  ASSUME NEW t \in Types, NEW a, IsValue(a), IsExact(t, a), a # Nil,
         NEW b, IsValue(b), IsExact(t, b), b # Nil
  PROVE  KeyOf(t, a) = KeyOf(t, b) <=> SameContent(t, a, b)
<1>1. a.go \in Keyed[t] /\ b.go \in Keyed[t] /\ a.go \in Writes[t] /\ b.go \in Writes[t]
  BY KeyTables, FixedKinds DEF IsExact
<1>2. KeyOf(t, a) = KeyFor(t, a.s) /\ KeyOf(t, b) = KeyFor(t, b.s)
  BY <1>1, KeyContent
<1>3. CASE Variable(t)
  BY <1>2, <1>3 DEF KeyFor, SameContent
<1>4. CASE ~ Variable(t)
  <2>1. t # "Text"
    BY <1>4 DEF Variable
  <2>2. /\ a.s = <<Number(a)>> /\ b.s = <<Number(b)>> /\ Number(a) \in Int /\ Number(b) \in Int
    BY <1>1, <1>4, FixedKinds
  <2>3. InRange(t, Number(a)) /\ InRange(t, Number(b))
    BY <1>4 DEF IsExact
  <2>4. KeyOf(t, a) = NumberKey(t, Number(a)) /\ KeyOf(t, b) = NumberKey(t, Number(b))
    BY <1>2, <1>4 DEF KeyFor, Number
  <2>5. KeyOf(t, a) = KeyOf(t, b) => Number(a) = Number(b)
    BY <1>4, <2>2, <2>3, <2>4, NumberKeyTells, Zenon
  <2>6. a.s = b.s <=> Number(a) = Number(b)
    BY <2>2
  <2>7. QED
    BY <2>1, <2>4, <2>5, <2>6 DEF SameContent
<1>5. QED
  BY <1>3, <1>4

LEMMA KeyCanonical ==
  ASSUME NEW t \in Types, NEW v, IsValue(v), IsExact(t, v), v # Nil
  PROVE  KeyOf(t, Canonical(t, v)) = KeyOf(t, v)
<1>1. v.go \in Keyed[t] /\ Native[t] \in Keyed[t]
  BY KeyTables DEF IsExact
<1> DEFINE c == Canonical(t, v)
<1>2. c.go = Native[t] /\ c.s = v.s
  BY DEF Canonical
<1> HIDE DEF c
<1>3. KeyOf(t, c) = KeyFor(t, v.s) /\ KeyOf(t, v) = KeyFor(t, v.s)
  BY <1>1, <1>2, KeyContent
<1>4. QED
  BY <1>3 DEF c
-----------------------------------------------------------------------------
(* The keys of rows *)

\* What Index.EncodeKey makes of one of n columns.
KeyPiece(t, n, v) == IF v = Nil THEN <<0>>
                     ELSE <<127>> \o (IF n > 1 THEN <<Len(KeyOf(t, v))>> ELSE <<>>) \o KeyOf(t, v)

\* A part of a composite key: a flag that says there is nothing behind it, or one with a length.
Framed(p) == /\ p \in Seq(Int)
             /\ \/ Len(p) = 1 /\ p[1] = 0
                \/ Len(p) >= 2 /\ p[1] = 127 /\ p[2] = Len(p) - 2

Triple(p, a, b, c) == a \in Seq(Int) /\ b \in Seq(Int) /\ c \in Seq(Int) /\ p = a \o b \o c
Thirds(p, a, b, c) ==
  /\ p \in Seq(Int) /\ Len(p) = Len(a) + Len(b) + Len(c)
  /\ Holds(p, a, 0) /\ Holds(p, b, Len(a)) /\ Holds(p, c, Len(a) + Len(b))

LEMMA IntConcat ==
  ASSUME NEW a \in Seq(Int), NEW b \in Seq(Int), NEW c, Ends(c, a, b)
  PROVE  /\ c \in Seq(Int) /\ Len(c) = Len(a) + Len(b) /\ Len(a) \in Nat /\ Len(b) \in Nat
         /\ Holds(c, a, 0) /\ Holds(c, b, Len(a))
BY ConcatHolds

LEMMA ThreeParts ==
  ASSUME NEW a, NEW b, NEW c, NEW p, Triple(p, a, b, c)
  PROVE  Thirds(p, a, b, c)
<1> DEFINE q == a \o b
<1>1. Ends(q, a, b) /\ Ends(p, q, c) /\ a \in Seq(Int) /\ b \in Seq(Int) /\ c \in Seq(Int)
  BY DEF Ends, Triple
<1> HIDE DEF q
<1>2. q \in Seq(Int) /\ Len(q) = Len(a) + Len(b) /\ Holds(q, a, 0) /\ Holds(q, b, Len(a))
      /\ Len(a) \in Nat
  BY <1>1, IntConcat
<1>3. p \in Seq(Int) /\ Len(p) = Len(q) + Len(c) /\ Holds(p, c, Len(q))
  BY <1>1, <1>2, IntConcat, Zenon
<1>4. Holds(p, a, 0)
  BY <1>1, <1>2, HoldsMore
<1>5. Holds(p, b, Len(a))
  BY <1>1, <1>2, HoldsMore
<1>6. QED
  BY <1>2, <1>3, <1>4, <1>5 DEF Thirds

\* A part of a key that has a value, with its length if there are several parts.
LEMMA LongPiece ==
  ASSUME NEW t \in Types, NEW v, IsValue(v), v # Nil, NEW n, n > 1
  PROVE  LET p == KeyPiece(t, n, v)  key == KeyOf(t, v)
         IN /\ p \in Seq(Int) /\ Len(p) = 2 + Len(key) /\ p[1] = 127 /\ p[2] = Len(key)
            /\ Holds(p, key, 2) /\ key \in Seq(Int) /\ Len(key) \in Nat
<1> DEFINE key == KeyOf(t, v)  p == KeyPiece(t, n, v)  a == <<127>>  b == <<Len(key)>>
<1>1. key \in Seq(Int)
  BY KeyInts
<1>2. p = a \o b \o key
  BY DEF KeyPiece
<1> HIDE DEF key, p
<1>3. Len(key) \in Nat
  BY <1>1
<1>4. a \in Seq(Int) /\ b \in Seq(Int) /\ Len(a) = 1 /\ Len(b) = 1 /\ a[1] = 127 /\ b[1] = Len(key)
  BY <1>3
<1>0. Triple(p, a, b, key)
  BY <1>1, <1>2, <1>4 DEF Triple
<1> HIDE DEF a, b
<1>5. /\ p \in Seq(Int) /\ Len(p) = Len(a) + Len(b) + Len(key)
      /\ Holds(p, a, 0) /\ Holds(p, b, Len(a)) /\ Holds(p, key, Len(a) + Len(b))
  BY <1>0, ThreeParts DEF Thirds
<1>6. p[1] = 127
  <2>1. p[0 + 1] = a[1]
    BY <1>4, <1>5 DEF Holds
  <2>2. QED
    BY <1>4, <2>1
<1>7. p[2] = Len(key)
  <2>1. p[1 + 1] = b[1]
    BY <1>4, <1>5 DEF Holds
  <2>2. QED
    BY <1>4, <2>1
<1>8. Len(p) = 2 + Len(key) /\ Holds(p, key, 2)
  <2>1. Len(a) + Len(b) = 2
    BY <1>4
  <2>2. QED
    BY <1>3, <1>4, <1>5, <2>1
<1>9. QED
  BY <1>1, <1>3, <1>5, <1>6, <1>7, <1>8 DEF key, p

LEMMA ShortPiece ==
  ASSUME NEW t \in Types, NEW v, IsValue(v), v # Nil
  PROVE  LET p == KeyPiece(t, 1, v)  key == KeyOf(t, v)
         IN /\ p \in Seq(Int) /\ Len(p) = 1 + Len(key) /\ p[1] = 127
            /\ Holds(p, key, 1) /\ key \in Seq(Int) /\ Len(key) \in Nat
<1> DEFINE key == KeyOf(t, v)  p == KeyPiece(t, 1, v)  a == <<127>>  b == <<>>
<1>1. key \in Seq(Int)
  BY KeyInts
<1>2. p = a \o b \o key
  BY DEF KeyPiece
<1> HIDE DEF key, p
<1>3. Len(key) \in Nat
  BY <1>1
<1>4. a \in Seq(Int) /\ b \in Seq(Int) /\ Len(a) = 1 /\ Len(b) = 0 /\ a[1] = 127
  OBVIOUS
<1>0. Triple(p, a, b, key)
  BY <1>1, <1>2, <1>4 DEF Triple
<1> HIDE DEF a, b
<1>5. /\ p \in Seq(Int) /\ Len(p) = Len(a) + Len(b) + Len(key)
      /\ Holds(p, a, 0) /\ Holds(p, key, Len(a) + Len(b))
  BY <1>0, ThreeParts DEF Thirds
<1>6. p[1] = 127
  <2>1. p[0 + 1] = a[1]
    BY <1>4, <1>5 DEF Holds
  <2>2. QED
    BY <1>4, <2>1
<1>7. Len(p) = 1 + Len(key) /\ Holds(p, key, 1)
  <2>1. Len(a) + Len(b) = 1
    BY <1>4
  <2>2. QED
    BY <1>3, <1>4, <1>5, <2>1
<1>8. QED
  BY <1>1, <1>3, <1>5, <1>6, <1>7 DEF key, p

LEMMA PieceFramed ==
  ASSUME NEW t \in Types, NEW v, IsValue(v), NEW n, n > 1
  PROVE  Framed(KeyPiece(t, n, v))
<1>1. CASE v = Nil
  <2>1. KeyPiece(t, n, v) = <<0>>
    BY <1>1 DEF KeyPiece
  <2>2. QED
    BY <2>1 DEF Framed
<1>2. CASE v # Nil
  BY <1>2, LongPiece DEF Framed
<1>3. QED
  BY <1>1, <1>2

\* Two slices of one length of the same elements.
LEMMA SameSlice ==
  ASSUME NEW a \in Seq(Int), NEW b \in Seq(Int), NEW r, NEW u \in Nat,
         Holds(r, a, u), Holds(r, b, u), Len(a) = Len(b)
  PROVE  a = b
<1> DEFINE n == Len(a)
<1>1. n \in Nat /\ n = Len(b) /\ a = [i \in 1..n |-> a[i]] /\ b = [i \in 1..n |-> b[i]]
  OBVIOUS
<1>2. \A j \in 1..n : r[u + j] = a[j] /\ r[u + j] = b[j]
  BY <1>1, Zenon DEF Holds
<1> HIDE DEF n
<1>3. \A j \in 1..n : a[j] = b[j]
  BY <1>2
<1>4. QED
  BY <1>1, <1>3, Zenon

\* No part of a composite key begins another.
LEMMA FramesMeet ==
  ASSUME NEW a, Framed(a), NEW b, Framed(b), NEW r, NEW u \in Nat, Holds(r, a, u), Holds(r, b, u)
  PROVE  a = b
<1>1. a \in Seq(Int) /\ b \in Seq(Int) /\ Len(a) \in Nat /\ Len(b) \in Nat
      /\ Len(a) >= 1 /\ Len(b) >= 1
  BY DEF Framed
<1>2. r[u + 1] = a[1] /\ r[u + 1] = b[1]
  BY <1>1 DEF Holds
<1>3. CASE Len(a) = 1 /\ a[1] = 0
  <2>1. Len(b) = 1
    BY <1>2, <1>3 DEF Framed
  <2>2. QED
    BY <1>1, <1>3, <2>1, SameSlice
<1>4. CASE Len(a) >= 2 /\ a[1] = 127 /\ a[2] = Len(a) - 2
  <2>1. Len(b) >= 2 /\ b[2] = Len(b) - 2
    BY <1>2, <1>4 DEF Framed
  <2>2. r[u + 2] = a[2] /\ r[u + 2] = b[2]
    BY <1>1, <1>4, <2>1 DEF Holds
  <2>3. Len(a) = Len(b)
    BY <1>1, <1>4, <2>1, <2>2
  <2>4. QED
    BY <1>1, <2>3, SameSlice
<1>5. QED
  BY <1>3, <1>4 DEF Framed

LEMMA JoinHolds ==
  ASSUME NEW n \in Nat, NEW s, Pieces(s, Int, n), NEW k \in 0..(n - 1)
  PROVE  /\ Holds(FlattenSeq(s), s[k + 1], JoinLen(s, k)) /\ JoinLen(s, k) \in Nat
         /\ JoinLen(s, k + 1) = JoinLen(s, k) + Len(s[k + 1])
<1>1. /\ Len(FlattenSeq(s)) = JoinLen(s, n) /\ Joined(s, n)
  BY JoinFacts, Zenon
<1>2. k + 1 \in 0..n /\ k \in 0..n
  OBVIOUS
<1>3. /\ JoinLen(s, k + 1) <= Len(FlattenSeq(s)) /\ JoinLen(s, k) \in Nat
      /\ JoinLen(s, k + 1) = JoinLen(s, k) + Len(s[k + 1])
  BY <1>1, <1>2 DEF Joined
<1>4. \A j \in 1..Len(s[k + 1]) : FlattenSeq(s)[JoinLen(s, k) + j] = s[k + 1][j]
  BY <1>1, Zenon DEF Joined
<1>5. QED
  BY <1>3, <1>4 DEF Holds

AllFramed(s, n) == \A i \in 1..n : Framed(s[i])
AsOne(s, z) == FlattenSeq(s) = FlattenSeq(z)

\* A composite key has one reading.
LEMMA FramesApart ==
  ASSUME NEW n \in Nat, NEW s, Pieces(s, Int, n), AllFramed(s, n),
         NEW z, Pieces(z, Int, n), AllFramed(z, n), AsOne(s, z)
  PROVE  s = z
<1> DEFINE P == {k \in Nat : k <= n => /\ JoinLen(s, k) = JoinLen(z, k)
                                       /\ \A i \in 1..k : s[i] = z[i]}
<1>1. 0 \in P
  <2>1. JoinLen(s, 0) = 0 /\ JoinLen(z, 0) = 0
    BY JoinFacts
  <2>2. QED
    BY <2>1
<1>2. ASSUME NEW k \in Nat, k \in P PROVE k + 1 \in P
  <2>1. SUFFICES ASSUME k + 1 <= n
                 PROVE  JoinLen(s, k + 1) = JoinLen(z, k + 1) /\ \A i \in 1..(k + 1) : s[i] = z[i]
    OBVIOUS
  <2>2. k \in 0..(n - 1) /\ k + 1 \in 1..n
    BY <2>1
  <2>3. JoinLen(s, k) = JoinLen(z, k) /\ \A i \in 1..k : s[i] = z[i]
    BY <1>2, <2>2
  <2>4. /\ Holds(FlattenSeq(s), s[k + 1], JoinLen(s, k)) /\ JoinLen(s, k) \in Nat
        /\ JoinLen(s, k + 1) = JoinLen(s, k) + Len(s[k + 1])
    BY <2>2, JoinHolds
  <2>5. /\ Holds(FlattenSeq(z), z[k + 1], JoinLen(z, k))
        /\ JoinLen(z, k + 1) = JoinLen(z, k) + Len(z[k + 1])
    BY <2>2, JoinHolds
  <2>6. Framed(s[k + 1]) /\ Framed(z[k + 1])
    BY <2>2 DEF AllFramed
  <2>7. Holds(FlattenSeq(s), z[k + 1], JoinLen(s, k))
    BY <2>3, <2>5 DEF AsOne
  <2>8. s[k + 1] = z[k + 1]
    BY <2>4, <2>6, <2>7, FramesMeet
  <2>9. QED
    BY <2>3, <2>4, <2>5, <2>8
<1>3. \A k \in Nat : k \in P
  <2> HIDE DEF P
  <2>1. QED
    BY <1>1, <1>2, ByCondition!Inductive
<1>4. \A i \in 1..n : s[i] = z[i]
  BY <1>3
<1>5. s = [i \in 1..n |-> s[i]] /\ z = [i \in 1..n |-> z[i]]
  BY DEF Pieces
<1>6. QED
  BY <1>4, <1>5

LEMMA SinglePiece ==
  ASSUME NEW s, Pieces(s, Int, 1)
  PROVE  FlattenSeq(s) = s[1]
<1>1. /\ FlattenSeq(s) \in Seq(Int) /\ Len(FlattenSeq(s)) = JoinLen(s, 1) /\ JoinLen(s, 0) = 0
  BY JoinFacts
<1>2. /\ Holds(FlattenSeq(s), s[0 + 1], JoinLen(s, 0)) /\ JoinLen(s, 0 + 1) = JoinLen(s, 0) + Len(s[0 + 1])
  BY JoinHolds
<1>3. s[1] \in Seq(Int)
  BY DEF Pieces
<1> DEFINE r == FlattenSeq(s)  x == s[1]
<1>4. Holds(r, x, 0) /\ Len(r) = Len(x)
  BY <1>1, <1>2, <1>3
<1>5. r \in Seq(Int) /\ x \in Seq(Int)
  BY <1>1, <1>3
<1> HIDE DEF r, x
<1>6. Holds(r, r, 0)
  BY <1>5 DEF Holds
<1>7. r = x
  BY <1>4, <1>5, <1>6, SameSlice
<1>8. QED
  BY <1>7 DEF r, x

LEMMA PieceInts ==
  ASSUME NEW t \in Types, NEW v, IsValue(v), NEW n \in Nat \ {0}
  PROVE  KeyPiece(t, n, v) \in Seq(Int)
<1>1. CASE v = Nil
  BY <1>1 DEF KeyPiece
<1>2. CASE v # Nil /\ n > 1
  BY <1>2, LongPiece
<1>3. CASE v # Nil /\ n = 1
  BY <1>3, ShortPiece
<1>4. QED
  BY <1>1, <1>2, <1>3

\* The part of a key tells values apart as lookups should.
LEMMA PieceTells ==
  ASSUME NEW t \in Types, NEW a, IsValue(a), IsExact(t, a), NEW b, IsValue(b), IsExact(t, b),
         NEW n \in Nat \ {0}
  PROVE  KeyPiece(t, n, a) = KeyPiece(t, n, b) <=> Same(t, a, b)
<1>1. CASE a = Nil /\ b = Nil
  BY <1>1 DEF Same
<1>2. CASE a # Nil /\ b # Nil
  <2>1. KeyOf(t, a) = KeyOf(t, b) <=> Same(t, a, b)
    BY <1>2, KeyTells DEF Same, SameContent
  <2>2. KeyOf(t, a) = KeyOf(t, b) => KeyPiece(t, n, a) = KeyPiece(t, n, b)
    BY <1>2 DEF KeyPiece
  <2>3. ASSUME KeyPiece(t, n, a) = KeyPiece(t, n, b) PROVE KeyOf(t, a) = KeyOf(t, b)
    <3> DEFINE p == KeyPiece(t, n, a)  x == KeyOf(t, a)  y == KeyOf(t, b)
    <3>1. p = KeyPiece(t, n, b)
      BY <2>3
    <3>2. CASE n > 1
      <4>1. Len(p) = 2 + Len(x) /\ Holds(p, x, 2) /\ x \in Seq(Int) /\ Len(x) \in Nat
        BY <1>2, <3>2, LongPiece
      <4>2. Len(p) = 2 + Len(y) /\ Holds(p, y, 2) /\ y \in Seq(Int) /\ Len(y) \in Nat
        BY <1>2, <3>1, <3>2, LongPiece
      <4> HIDE DEF p, x, y
      <4>3. Len(x) = Len(y)
        BY <4>1, <4>2
      <4>4. x = y
        BY <4>1, <4>2, <4>3, SameSlice
      <4>5. QED
        BY <4>4 DEF x, y
    <3>3. CASE n = 1
      <4>1. Len(p) = 1 + Len(x) /\ Holds(p, x, 1) /\ x \in Seq(Int) /\ Len(x) \in Nat
        BY <1>2, <3>3, ShortPiece
      <4>2. Len(p) = 1 + Len(y) /\ Holds(p, y, 1) /\ y \in Seq(Int) /\ Len(y) \in Nat
        BY <1>2, <3>1, <3>3, ShortPiece
      <4> HIDE DEF p, x, y
      <4>3. Len(x) = Len(y)
        BY <4>1, <4>2
      <4>4. x = y
        BY <4>1, <4>2, <4>3, SameSlice
      <4>5. QED
        BY <4>4 DEF x, y
    <3>4. QED
      BY <3>2, <3>3
  <2>4. QED
    BY <2>1, <2>2, <2>3
<1>3. CASE (a = Nil) # (b = Nil)
  <2>1. ~ Same(t, a, b)
    BY <1>3 DEF Same
  <2>2. ASSUME NEW v, IsValue(v) PROVE KeyPiece(t, n, v)[1] = IF v = Nil THEN 0 ELSE 127
    <3>1. CASE v = Nil
      BY <3>1 DEF KeyPiece
    <3>2. CASE v # Nil /\ n > 1
      BY <2>2, <3>2, LongPiece
    <3>3. CASE v # Nil /\ n = 1
      BY <2>2, <3>3, ShortPiece
    <3>4. QED
      BY <3>1, <3>2, <3>3
  <2>3. KeyPiece(t, n, a)[1] # KeyPiece(t, n, b)[1]
    BY <1>3, <2>2
  <2>4. QED
    BY <2>1, <2>3
<1>4. QED
  BY <1>1, <1>2, <1>3

\* The parts of the key that values have in an index over columns ix of C.
KeyPieces(C, ix, vals) == [k \in DOMAIN ix |-> KeyPiece(C[ix[k]].type, Len(ix), vals[ix[k]])]
KeyBytes(C, ix, vals) == FlattenSeq(KeyPieces(C, ix, vals))

\* ix lists columns of C, one at least; vals are exact in all of them.
Indexed(C, ix) == /\ ix \in Seq(DOMAIN C) /\ Len(ix) >= 1
                  /\ \A i \in DOMAIN C : C[i].type \in Types
ExactIn(C, ix, vals) == \A i \in Range(ix) : IsValue(vals[i]) /\ IsExact(C[i].type, vals[i])
SameIn(C, ix, a, b) == \A i \in Range(ix) : Same(C[i].type, a[i], b[i])

LEMMA IndexedFacts ==
  ASSUME NEW C, NEW ix, Indexed(C, ix)
  PROVE  /\ Len(ix) \in Nat \ {0} /\ DOMAIN ix = 1..Len(ix)
         /\ \A k \in 1..Len(ix) : ix[k] \in Range(ix) /\ C[ix[k]].type \in Types
         /\ Range(ix) = {ix[k] : k \in 1..Len(ix)}
BY DEF Indexed, Range

LEMMA KeyPiecesMade ==
  ASSUME NEW C, NEW ix, Indexed(C, ix), NEW vals, ExactIn(C, ix, vals)
  PROVE  /\ Pieces(KeyPieces(C, ix, vals), Int, Len(ix))
         /\ Len(ix) > 1 => AllFramed(KeyPieces(C, ix, vals), Len(ix))
         /\ \A k \in 1..Len(ix) :
              KeyPieces(C, ix, vals)[k] = KeyPiece(C[ix[k]].type, Len(ix), vals[ix[k]])
<1> DEFINE n == Len(ix)  s == KeyPieces(C, ix, vals)
<1>1. /\ n \in Nat \ {0} /\ DOMAIN ix = 1..n
      /\ \A k \in 1..n : C[ix[k]].type \in Types /\ IsValue(vals[ix[k]])
  BY IndexedFacts DEF ExactIn
<1>2. \A k \in 1..n : s[k] = KeyPiece(C[ix[k]].type, n, vals[ix[k]])
  BY <1>1 DEF KeyPieces
<1>3. s = [k \in 1..n |-> s[k]]
  BY <1>1 DEF KeyPieces
<1> HIDE DEF n, s
<1>4. \A k \in 1..n : s[k] \in Seq(Int)
  <2> TAKE k \in 1..n
  <2> DEFINE t == C[ix[k]].type  v == vals[ix[k]]
  <2>1. t \in Types /\ IsValue(v) /\ s[k] = KeyPiece(t, n, v)
    BY <1>1, <1>2
  <2> HIDE DEF t, v
  <2>2. QED
    BY <1>1, <2>1, PieceInts
<1>5. Pieces(s, Int, n)
  BY <1>1, <1>3, <1>4, PiecesMade
<1>6. ASSUME n > 1 PROVE AllFramed(s, n)
  <2>1. ASSUME NEW k \in 1..n PROVE Framed(s[k])
    <3> DEFINE t == C[ix[k]].type  v == vals[ix[k]]
    <3>1. t \in Types /\ IsValue(v) /\ s[k] = KeyPiece(t, n, v)
      BY <1>1, <1>2
    <3> HIDE DEF t, v
    <3>2. QED
      BY <1>6, <3>1, PieceFramed
  <2>2. QED
    BY <2>1 DEF AllFramed
<1>7. QED
  BY <1>2, <1>5, <1>6 DEF n, s

LEMMA KeysTell ==
  ASSUME NEW C, NEW ix, Indexed(C, ix), NEW a, ExactIn(C, ix, a), NEW b, ExactIn(C, ix, b)
  PROVE  KeyBytes(C, ix, a) = KeyBytes(C, ix, b) <=> SameIn(C, ix, a, b)
<1> DEFINE n == Len(ix)  s == KeyPieces(C, ix, a)  z == KeyPieces(C, ix, b)
<1>1. /\ n \in Nat \ {0} /\ \A k \in 1..n : ix[k] \in Range(ix) /\ C[ix[k]].type \in Types
      /\ Range(ix) = {ix[k] : k \in 1..n}
  BY IndexedFacts
<1>2. /\ Pieces(s, Int, n) /\ (n > 1 => AllFramed(s, n))
      /\ \A k \in 1..n : s[k] = KeyPiece(C[ix[k]].type, n, a[ix[k]])
  BY KeyPiecesMade
<1>3. /\ Pieces(z, Int, n) /\ (n > 1 => AllFramed(z, n))
      /\ \A k \in 1..n : z[k] = KeyPiece(C[ix[k]].type, n, b[ix[k]])
  BY KeyPiecesMade
<1> HIDE DEF n, s, z
<1>4. \A k \in 1..n : s[k] = z[k] <=> Same(C[ix[k]].type, a[ix[k]], b[ix[k]])
  <2> TAKE k \in 1..n
  <2> DEFINE t == C[ix[k]].type  v == a[ix[k]]  w == b[ix[k]]
  <2>1. t \in Types /\ IsValue(v) /\ IsExact(t, v) /\ IsValue(w) /\ IsExact(t, w)
    BY <1>1 DEF ExactIn
  <2>2. s[k] = KeyPiece(t, n, v) /\ z[k] = KeyPiece(t, n, w)
    BY <1>2, <1>3
  <2> HIDE DEF t, v, w
  <2>3. s[k] = z[k] <=> Same(t, v, w)
    BY <1>1, <2>1, <2>2, PieceTells
  <2>4. QED
    BY <2>3 DEF t, v, w
<1>5. SameIn(C, ix, a, b) <=> \A k \in 1..n : s[k] = z[k]
  BY <1>1, <1>4 DEF SameIn
<1>6. s = z <=> \A k \in 1..n : s[k] = z[k]
  <2>1. s = [k \in 1..n |-> s[k]] /\ z = [k \in 1..n |-> z[k]]
    BY <1>2, <1>3 DEF Pieces
  <2>2. QED
    BY <2>1
<1>7. ASSUME FlattenSeq(s) = FlattenSeq(z) PROVE s = z
  <2>1. CASE n = 1
    <3>1. Pieces(s, Int, 1) /\ Pieces(z, Int, 1)
      BY <1>2, <1>3, <2>1
    <3>2. FlattenSeq(s) = s[1] /\ FlattenSeq(z) = z[1]
      BY <3>1, SinglePiece
    <3>3. s[1] = z[1]
      BY <1>7, <3>2, Zenon
    <3>4. \A k \in 1..n : k = 1
      BY <2>1
    <3>5. QED
      BY <1>6, <3>3, <3>4
  <2>2. CASE n > 1
    <3>1. n \in Nat /\ AllFramed(s, n) /\ AllFramed(z, n)
      BY <1>1, <1>2, <1>3, <2>2
    <3>2. AsOne(s, z)
      BY <1>7 DEF AsOne
    <3>3. QED
      BY <1>2, <1>3, <3>1, <3>2, FramesApart
  <2>3. QED
    BY <1>1, <2>1, <2>2
<1>8. QED
  BY <1>5, <1>6, <1>7 DEF KeyBytes, s, z

\* b are the values a, some of them read back.
AsRead(C, ix, a, b) == \A i \in Range(ix) : b[i] = a[i] \/ b[i] = Canonical(C[i].type, a[i])

\* The key of values read back is that of the values given.
LEMMA KeysAgree ==
  ASSUME NEW C, NEW ix, Indexed(C, ix), NEW a, ExactIn(C, ix, a), NEW b, AsRead(C, ix, a, b)
  PROVE  KeyBytes(C, ix, a) = KeyBytes(C, ix, b) /\ ExactIn(C, ix, b)
<1>1. /\ Len(ix) \in Nat \ {0} /\ DOMAIN ix = 1..Len(ix)
      /\ \A k \in 1..Len(ix) : ix[k] \in Range(ix) /\ C[ix[k]].type \in Types
      /\ Range(ix) = {ix[k] : k \in 1..Len(ix)}
  BY IndexedFacts
<1>2. \A k \in 1..Len(ix) : KeyPiece(C[ix[k]].type, Len(ix), a[ix[k]])
                              = KeyPiece(C[ix[k]].type, Len(ix), b[ix[k]])
  <2> TAKE k \in 1..Len(ix)
  <2> DEFINE t == C[ix[k]].type  v == a[ix[k]]  c == Canonical(t, v)  n == Len(ix)
  <2>1. t \in Types /\ IsValue(v) /\ IsExact(t, v) /\ (b[ix[k]] = v \/ b[ix[k]] = c)
    BY <1>1, Zenon DEF ExactIn, AsRead
  <2>2. CASE v = Nil
    <3>1. c = Nil
      BY <2>2 DEF Canonical
    <3>2. QED
      BY <2>1, <2>2, <3>1
  <2>3. CASE v # Nil
    <3>1. KeyOf(t, c) = KeyOf(t, v)
      BY <2>1, <2>3, KeyCanonical
    <3>2. c # Nil
      <4>1. Native[t] # "nil"
        BY <2>1, KindTables
      <4>2. QED
        BY <2>3, <4>1 DEF Canonical, Nil
    <3>3. KeyPiece(t, n, v) = KeyPiece(t, n, c)
      BY <2>3, <3>1, <3>2 DEF KeyPiece
    <3>4. QED
      BY <2>1, <3>3
  <2>4. QED
    BY <2>2, <2>3
<1>3. KeyPieces(C, ix, a) = KeyPieces(C, ix, b)
  BY <1>1, <1>2 DEF KeyPieces
<1>4. ASSUME NEW i \in Range(ix) PROVE IsValue(b[i]) /\ IsExact(C[i].type, b[i])
  <2>1. C[i].type \in Types /\ IsValue(a[i]) /\ IsExact(C[i].type, a[i])
    BY <1>1 DEF ExactIn
  <2>2. b[i] = a[i] \/ b[i] = Canonical(C[i].type, a[i])
    BY DEF AsRead
  <2>3. QED
    BY <2>1, <2>2, CanonicalExact
<1>5. QED
  BY <1>3, <1>4 DEF KeyBytes, ExactIn
-----------------------------------------------------------------------------
(* An index over columns whose values are all exact has just the entries of its rows *)

IxCols(x) == def.indexes[x].cols
\* Index x is over columns that were given exact values only.
Plain(x) == Range(IxCols(x)) \cap lossy = {}
\* The entries of rows L with keys K.
EntriesOf(K, L) == {[key |-> K[r], row |-> r] : r \in L}
GivenKeys(x) == [r \in DOMAIN rows |-> KeyBytes(Parsed, IxCols(x), given[r])]

ExactRows == \A r \in Live, i \in ColNums \ lossy : IsExact(def.cols[i].type, given[r][i])
LeavesKept == Roomy => \A x \in Indexes : Plain(x) => leaf[x] = EntriesOf(GivenKeys(x), Live)
LInv == RInv /\ Accepted(def) /\ ExactRows /\ LeavesKept

LEMMA IndexKeyBytes ==
  ASSUME NEW x \in Indexes, NEW vals
  PROVE  IndexKey(x, vals) = KeyBytes(Parsed, IxCols(x), vals)
BY DEF IndexKey, KeyBytes, KeyPieces, KeyPiece, IxCols

LEMMA IndexedHere ==
  ASSUME TInv, Accepted(def), NEW x \in Indexes
  PROVE  Indexed(Parsed, IxCols(x)) /\ Range(IxCols(x)) \subseteq ColNums
<1> DEFINE ix == IxCols(x)
<1>1. /\ def \in Schemas /\ DOMAIN Parsed = ColNums /\ Columned(Parsed)
  BY TransactionColumns
<1>2. ix \in Seq(Nat)
  <2>1. def.indexes[x] \in Range(def.indexes)
    BY DEF Indexes, Range
  <2>2. QED
    BY <1>1, <2>1, SchemaAssumption DEF IxCols
<1>3. Len(ix) \in 1..10 /\ \A k \in DOMAIN ix : ix[k] \in ColNums
  BY DEF Accepted, Indexes, IxCols, ColNums
<1> HIDE DEF ix
<1>4. ix \in Seq(DOMAIN Parsed)
  <2> DEFINE n == Len(ix)  S == DOMAIN Parsed
  <2>1. n \in Nat /\ DOMAIN ix = 1..n /\ ix = [k \in 1..n |-> ix[k]] /\ \A k \in 1..n : ix[k] \in S
    BY <1>1, <1>2, <1>3
  <2> HIDE DEF n, S
  <2>2. ix \in [1..n -> S]
    BY <2>1
  <2>3. QED
    BY <2>1, <2>2 DEF S
<1>5. \A i \in DOMAIN Parsed : Parsed[i].type \in Types
  <2>1. /\ DOMAIN Parsed = 1..Len(Parsed)
        /\ \A i \in 1..Len(Parsed) : Parsed[i].type \in Types
    BY <1>1, ColumnFacts
  <2>2. QED
    BY <2>1
<1>6. Range(ix) \subseteq ColNums
  BY <1>3 DEF Range
<1>7. Len(ix) >= 1
  <2> DEFINE m == Len(ix)
  <2>1. m \in 1..10
    BY <1>3
  <2> HIDE DEF m
  <2>2. m >= 1
    BY <2>1
  <2>3. QED
    BY <2>2 DEF m
<1>8. QED
  BY <1>4, <1>5, <1>6, <1>7 DEF Indexed, ix

\* The values of a row in such an index are exact, and those read back have their key.
LEMMA RowKeys ==
  ASSUME LInv, Roomy, NEW x \in Indexes, Plain(x), NEW r \in Live
  PROVE  /\ ExactIn(Parsed, IxCols(x), given[r])
         /\ AsRead(Parsed, IxCols(x), given[r], Values(r))
         /\ IndexKey(x, Values(r)) = GivenKeys(x)[r] /\ ExactIn(Parsed, IxCols(x), Values(r))
<1> DEFINE ix == IxCols(x)
<1>1. /\ Indexed(Parsed, ix) /\ Range(ix) \subseteq ColNums
      /\ def \in Schemas /\ Parsed = Shape(Columns(def)) /\ DOMAIN Parsed = ColNums
      /\ \A i \in ColNums : Parsed[i].type = def.cols[i].type
  BY IndexedHere, TransactionColumns DEF LInv, RInv
<1>2. WellFormed(Parsed, given[r]) /\ \A i \in DOMAIN Parsed : Faithful(Parsed, rows[r], given[r], i)
  BY DEF LInv, RInv, RowsKept, Kept
<1>3. ExactIn(Parsed, ix, given[r])
  <2>1. ASSUME NEW i \in Range(ix) PROVE IsValue(given[r][i]) /\ IsExact(Parsed[i].type, given[r][i])
    <3>1. i \in ColNums \ lossy
      BY <1>1 DEF Plain
    <3>2. QED
      BY <1>1, <1>2, <3>1 DEF WellFormed, LInv, ExactRows
  <2>2. QED
    BY <2>1 DEF ExactIn
<1>4. Apart(Parsed)
  BY <1>1, RoomyApart
<1>5. AsRead(Parsed, ix, given[r], Values(r))
  <2>1. ASSUME NEW i \in Range(ix) PROVE Values(r)[i] = Canonical(Parsed[i].type, given[r][i])
    BY <1>1, <1>2, <1>3, <1>4 DEF ExactIn, Faithful, Values
  <2>2. QED
    BY <2>1 DEF AsRead
<1>6. KeyBytes(Parsed, ix, given[r]) = KeyBytes(Parsed, ix, Values(r)) /\ ExactIn(Parsed, ix, Values(r))
  BY <1>1, <1>3, <1>5, KeysAgree
<1>7. r \in DOMAIN rows
  BY DEF Live
<1>8. QED
  BY <1>3, <1>5, <1>6, <1>7, IndexKeyBytes DEF GivenKeys

\* Adding, removing and changing entries.
Agree(K, J, L) == \A q \in L : J[q] = K[q]
EntryAdded(K, J, L, r) == EntriesOf(J, L \cup {r}) = EntriesOf(K, L) \cup {[key |-> J[r], row |-> r]}
EntriesLeft(K, J, L, R) == EntriesOf(J, L \ R) = EntriesOf(K, L) \ EntriesOf(K, R)
EntriesNew(K, J, L, M) == EntriesOf(J, L) = (EntriesOf(K, L) \ EntriesOf(K, M)) \cup EntriesOf(J, M)

LEMMA EntriesAdded ==
  ASSUME NEW K, NEW J, NEW L, NEW r, Agree(K, J, L)
  PROVE  EntryAdded(K, J, L, r)
BY DEF EntriesOf, Agree, EntryAdded

LEMMA EntryRow ==
  ASSUME NEW K, NEW q, NEW J, NEW r, [key |-> K[q], row |-> q] = [key |-> J[r], row |-> r]
  PROVE  q = r
<1> DEFINE a == [key |-> K[q], row |-> q]  b == [key |-> J[r], row |-> r]
<1>1. a.row = q /\ b.row = r
  OBVIOUS
<1>2. QED
  BY <1>1

LEMMA EntriesGone ==
  ASSUME NEW K, NEW J, NEW L, NEW R \in SUBSET L, Agree(K, J, L \ R)
  PROVE  EntriesLeft(K, J, L, R)
<1>1. \A q, r : [key |-> K[q], row |-> q] = [key |-> K[r], row |-> r] => q = r
  BY EntryRow
<1>2. QED
  BY <1>1 DEF EntriesOf, Agree, EntriesLeft

LEMMA EntriesMoved ==
  ASSUME NEW K, NEW J, NEW L, NEW M \in SUBSET L, Agree(K, J, L \ M)
  PROVE  EntriesNew(K, J, L, M)
<1>1. EntriesLeft(K, J, L, M)
  BY EntriesGone
<1>2. EntriesOf(J, L) = EntriesOf(J, L \ M) \cup EntriesOf(J, M)
  BY DEF EntriesOf
<1>3. QED
  BY <1>1, <1>2 DEF EntriesLeft, EntriesNew

LEMMA RowNotGone ==
  ASSUME NEW C, Columned(C), NEW vals, WellFormed(C, vals)
  PROVE  BuildRow(C, vals) # Gone
<1> DEFINE row == BuildRow(C, vals)
<1>1. Built(C, vals, row)
  BY DEF Built
<1> HIDE DEF row
<1>2. row \in Seq(Int) /\ Len(row) = RowLen(C, vals) /\ DataEnd(C, vals) \in Nat /\ MaskLen(Len(C)) \in Nat
  BY <1>1, RowShape
<1>3. VarCount(C) \in Nat
  BY VarColFacts
<1>4. Len(row) > 0
  BY <1>2, <1>3 DEF RowLen
<1>5. row # <<>>
  BY <1>4
<1>6. QED
  BY <1>5 DEF row, Gone

LEMMA InsertIndexed ==
  ASSUME LInv, NEW vals0 \in Inputs[def], Insert(vals0), TInv'
  PROVE  ExactRows' /\ LeavesKept'
<1> DEFINE n == Len(rows)  vals == Inserted(vals0)  row == BuildRow(Parsed, vals)
<1>1. /\ n \in Nat /\ DOMAIN rows = 1..n /\ DOMAIN rows' = 1..(n + 1) /\ def' = def
      /\ rows'[n + 1] = row /\ given'[n + 1] = vals
      /\ \A r \in 1..n : rows'[r] = rows[r] /\ given'[r] = given[r]
      /\ WellFormed(Parsed, vals)
  BY InsertParts DEF LInv, RInv
<1>2. Columned(Parsed) /\ Parsed' = Parsed /\ DOMAIN Parsed = ColNums
  BY <1>1, TransactionColumns, SameColumns DEF LInv, RInv
<1>3. /\ leaf' = [x \in Indexes |-> leaf[x] \cup {[key |-> IndexKey(x, vals), row |-> n + 1]}]
      /\ lossy' = lossy \cup {i \in ColNums : ~ IsExact(def.cols[i].type, vals[i])}
  BY DEF Insert, Inserted, Note
<1>4. row # Gone
  BY <1>1, <1>2, RowNotGone
<1> HIDE DEF n, vals, row
<1>5. Live' = Live \cup {n + 1} /\ Live \subseteq 1..n
  <2>1. Live' = {r \in 1..(n + 1) : rows'[r] # Gone} /\ Live = {r \in 1..n : rows[r] # Gone}
    BY <1>1 DEF Live
  <2>2. 1..(n + 1) = 1..n \cup {n + 1}
    BY <1>1
  <2>3. n + 1 \in Live'
    BY <1>1, <1>4, <2>1, <2>2
  <2>4. \A r \in 1..n : r \in Live' <=> r \in Live
    BY <1>1, <2>1, <2>2
  <2>5. QED
    BY <2>1, <2>2, <2>3, <2>4
<1>6. ColNums' = ColNums /\ Indexes' = Indexes
  BY <1>1 DEF ColNums, Indexes
<1>7. ExactRows'
  <2>1. ASSUME NEW r \in Live', NEW i \in ColNums \ lossy'
        PROVE  IsExact(def'.cols[i].type, given'[r][i])
    <3>1. i \in ColNums \ lossy /\ IsExact(def.cols[i].type, vals[i])
      BY <1>3
    <3>2. CASE r = n + 1
      BY <1>1, <3>1, <3>2
    <3>3. CASE r \in Live
      <4>1. given'[r] = given[r]
        BY <1>1, <1>5, <3>3
      <4>2. QED
        BY <1>1, <3>1, <3>3, <4>1 DEF LInv, ExactRows
    <3>4. QED
      BY <1>5, <3>2, <3>3
  <2>2. QED
    BY <1>6, <2>1 DEF ExactRows
<1>8. ASSUME Roomy, NEW x \in Indexes, Plain(x)'
      PROVE  leaf'[x] = EntriesOf(GivenKeys(x)', Live')
  <2> DEFINE K == GivenKeys(x)  J == GivenKeys(x)'
  <2>1. J = [r \in DOMAIN rows' |-> KeyBytes(Parsed, IxCols(x), given'[r])]
    BY <1>1, <1>2 DEF GivenKeys, IxCols
  <2>2. K = [r \in DOMAIN rows |-> KeyBytes(Parsed, IxCols(x), given[r])]
    BY DEF GivenKeys
  <2>3. Plain(x)
    BY <1>1, <1>3, <1>8 DEF Plain, IxCols
  <2>4. leaf[x] = EntriesOf(K, Live)
    BY <1>8, <2>3 DEF LInv, LeavesKept
  <2>5. J[n + 1] = IndexKey(x, vals)
    <3>1. n + 1 \in DOMAIN rows'
      BY <1>1
    <3>2. QED
      BY <1>1, <2>1, <3>1, IndexKeyBytes
  <2>6. Agree(K, J, Live)
    <3>1. ASSUME NEW r \in Live PROVE J[r] = K[r]
      <4>1. r \in 1..n /\ r \in 1..(n + 1)
        BY <1>1, <1>5
      <4>2. given'[r] = given[r]
        BY <1>1, <4>1
      <4>3. QED
        BY <1>1, <2>1, <2>2, <4>1, <4>2
    <3> HIDE DEF J, K
    <3>2. QED
      BY <3>1 DEF Agree
  <2>7. leaf'[x] = leaf[x] \cup {[key |-> J[n + 1], row |-> n + 1]}
    BY <1>3, <2>5
  <2> HIDE DEF J, K
  <2>8. EntryAdded(K, J, Live, n + 1)
    BY <2>6, EntriesAdded
  <2>9. QED
    BY <1>5, <2>4, <2>7, <2>8 DEF J, EntryAdded
<1>9. LeavesKept'
  BY <1>1, <1>6, <1>8 DEF LeavesKept, Roomy
<1>10. QED
  BY <1>7, <1>9

LEMMA DeleteIndexed ==
  ASSUME LInv, NEW R \in SUBSET Live, Delete(R), TInv'
  PROVE  ExactRows' /\ LeavesKept'
<1>1. /\ rows' = [r \in DOMAIN rows |-> IF r \in R THEN Gone ELSE rows[r]]
      /\ given' = [r \in DOMAIN rows |-> IF r \in R THEN Gone ELSE given[r]]
      /\ leaf' = [x \in Indexes |-> leaf[x] \ {[key |-> IndexKey(x, Values(r)), row |-> r] : r \in R}]
      /\ def' = def /\ lossy' = lossy
  BY DEF Delete, Commit
<1>2. Parsed' = Parsed
  BY <1>1, SameColumns DEF LInv, RInv
<1>3. /\ Live' = Live \ R /\ DOMAIN rows' = DOMAIN rows
      /\ \A r \in Live' : given'[r] = given[r]
  BY <1>1 DEF Live
<1>4. ColNums' = ColNums /\ Indexes' = Indexes
  BY <1>1 DEF ColNums, Indexes
<1>5. ExactRows'
  BY <1>1, <1>3, <1>4 DEF LInv, ExactRows
<1>6. ASSUME Roomy, NEW x \in Indexes, Plain(x)'
      PROVE  leaf'[x] = EntriesOf(GivenKeys(x)', Live')
  <2> DEFINE K == GivenKeys(x)  J == GivenKeys(x)'
  <2>1. J = [r \in DOMAIN rows' |-> KeyBytes(Parsed, IxCols(x), given'[r])]
    BY <1>1, <1>2 DEF GivenKeys, IxCols
  <2>2. K = [r \in DOMAIN rows |-> KeyBytes(Parsed, IxCols(x), given[r])]
    BY DEF GivenKeys
  <2>3. Plain(x)
    BY <1>1, <1>6 DEF Plain, IxCols
  <2>4. leaf[x] = EntriesOf(K, Live)
    BY <1>6, <2>3 DEF LInv, LeavesKept
  <2>5. \A r \in R : IndexKey(x, Values(r)) = K[r]
    BY <1>6, <2>3, RowKeys
  <2>6. Agree(K, J, Live \ R)
    <3>1. ASSUME NEW r \in Live \ R PROVE J[r] = K[r]
      <4>1. r \in DOMAIN rows /\ r \in Live'
        BY <1>3 DEF Live
      <4>2. QED
        BY <1>3, <2>1, <2>2, <4>1
    <3> HIDE DEF J, K
    <3>2. QED
      BY <3>1 DEF Agree
  <2> HIDE DEF J, K
  <2>7. leaf'[x] = leaf[x] \ EntriesOf(K, R)
    BY <1>1, <2>5 DEF EntriesOf
  <2>8. EntriesLeft(K, J, Live, R)
    BY <2>6, EntriesGone
  <2>9. QED
    BY <1>3, <2>4, <2>7, <2>8, Zenon DEF J, EntriesLeft
<1>7. LeavesKept'
  BY <1>1, <1>4, <1>6 DEF LeavesKept, Roomy
<1>8. QED
  BY <1>5, <1>7

\* What Update writes to row r, and what its caller has then given for it.
Now(r, set) == [i \in ColNums |-> IF i \in DOMAIN set THEN set[i] ELSE Values(r)[i]]
Asked(r, set) == [i \in ColNums |-> IF i \in DOMAIN set THEN set[i] ELSE given[r][i]]

LEMMA UpdateParts ==
  ASSUME RInv, NEW R \in SUBSET Live, NEW set \in Sets[def], Update(R, set)
  PROVE  /\ def' = def /\ Live' = Live /\ DOMAIN rows' = DOMAIN rows /\ DOMAIN set \subseteq ColNums
         /\ \A r \in Live : given'[r] = IF r \in R THEN Asked(r, set) ELSE given[r]
         /\ lossy' = lossy \cup {i \in DOMAIN set : ~ IsExact(def.cols[i].type, set[i])}
<1>1. /\ rows' = [r \in DOMAIN rows |-> IF r \in R THEN BuildRow(Parsed, Now(r, set)) ELSE rows[r]]
      /\ given' = [r \in DOMAIN rows |-> IF r \in R THEN Asked(r, set) ELSE given[r]]
      /\ def' = def
      /\ lossy' = lossy \cup {i \in DOMAIN set : ~ IsExact(def.cols[i].type, set[i])}
  BY DEF Update, Commit, Note, Now, Asked
<1>2. /\ Columned(Parsed) /\ DOMAIN Parsed = ColNums /\ def \in Schemas
  BY TransactionColumns DEF RInv
<1>3. (\A i \in DOMAIN set : IsValue(set[i])) /\ DOMAIN set \subseteq ColNums
  BY <1>2, InputAssumption DEF ColNums
<1>4. ASSUME NEW r \in R PROVE BuildRow(Parsed, Now(r, set)) # Gone
  <2>1. BuiltOf(Parsed, rows[r])
    BY DEF RInv, RowsKept, Kept
  <2>2. PICK w : WellFormed(Parsed, w) /\ Built(Parsed, w, rows[r])
    BY <2>1 DEF BuiltOf
  <2>3. \A i \in ColNums : IsValue(Values(r)[i])
    BY <1>2, <2>2, RowRoundTrip DEF ReadsBack, Values
  <2>4. WellFormed(Parsed, Now(r, set))
    BY <1>2, <1>3, <2>3 DEF WellFormed, Now
  <2>5. QED
    BY <1>2, <2>4, RowNotGone
<1>5. \A r \in DOMAIN rows : rows'[r] # Gone <=> rows[r] # Gone
  <2> TAKE r \in DOMAIN rows
  <2>1. CASE r \in R
    <3>1. rows[r] # Gone
      BY <2>1 DEF Live
    <3>2. QED
      BY <1>1, <1>4, <2>1, <3>1
  <2>2. CASE r \notin R
    BY <1>1, <2>2
  <2>3. QED
    BY <2>1, <2>2
<1>6. Live' = Live
  BY <1>1, <1>5 DEF Live
<1>7. Live \subseteq DOMAIN rows
  BY DEF Live
<1>8. QED
  BY <1>1, <1>3, <1>6, <1>7

\* The entries that Update takes out and puts in.
Changes(x, R, set) == {r \in R : [key |-> IndexKey(x, Values(r)), row |-> r]
                                   # [key |-> IndexKey(x, Now(r, set)), row |-> r]}
LEMMA UpdateLeaf ==
  ASSUME NEW R, NEW set, Update(R, set), NEW x \in Indexes
  PROVE  leaf'[x] = (leaf[x] \ {[key |-> IndexKey(x, Values(r)), row |-> r] : r \in Changes(x, R, set)})
                      \cup {[key |-> IndexKey(x, Now(r, set)), row |-> r] : r \in Changes(x, R, set)}
BY DEF Update, Now, Changes

LEMMA UpdateExact ==
  ASSUME LInv, NEW R \in SUBSET Live, NEW set \in Sets[def], Update(R, set)
  PROVE  ExactRows'
<1>1. /\ def' = def /\ Live' = Live /\ DOMAIN set \subseteq ColNums
      /\ \A r \in Live : given'[r] = IF r \in R THEN Asked(r, set) ELSE given[r]
      /\ lossy' = lossy \cup {i \in DOMAIN set : ~ IsExact(def.cols[i].type, set[i])}
  BY UpdateParts, Zenon DEF LInv
<1>2. ColNums' = ColNums
  BY <1>1 DEF ColNums
<1>3. ASSUME NEW r \in Live, NEW i \in ColNums \ lossy' PROVE IsExact(def'.cols[i].type, given'[r][i])
  <2>1. IsExact(def.cols[i].type, given[r][i])
    BY <1>1 DEF LInv, ExactRows
  <2>2. CASE r \in R /\ i \in DOMAIN set
    <3>1. given'[r][i] = set[i]
      BY <1>1, <2>2, Zenon DEF Asked
    <3>2. QED
      BY <1>1, <2>2, <3>1
  <2>3. CASE r \in R /\ i \notin DOMAIN set
    <3>1. given'[r][i] = given[r][i]
      BY <1>1, <2>3, Zenon DEF Asked
    <3>2. QED
      BY <1>1, <2>1, <3>1
  <2>4. CASE r \notin R
    BY <1>1, <2>1, <2>4
  <2>5. QED
    BY <2>2, <2>3, <2>4
<1>4. QED
  BY <1>1, <1>2, <1>3 DEF ExactRows

LEMMA UpdateIndexed ==
  ASSUME LInv, NEW R \in SUBSET Live, NEW set \in Sets[def], Update(R, set), RInv'
  PROVE  ExactRows' /\ LeavesKept'
<1>1. /\ def' = def /\ Live' = Live /\ DOMAIN rows' = DOMAIN rows /\ DOMAIN set \subseteq ColNums
      /\ \A r \in Live : given'[r] = IF r \in R THEN Asked(r, set) ELSE given[r]
      /\ lossy' = lossy \cup {i \in DOMAIN set : ~ IsExact(def.cols[i].type, set[i])}
  BY UpdateParts, Zenon DEF LInv
<1>2. Parsed' = Parsed /\ DOMAIN Parsed = ColNums
  BY <1>1, SameColumns, TransactionColumns DEF LInv, RInv
<1>3. ColNums' = ColNums /\ Indexes' = Indexes
  BY <1>1 DEF ColNums, Indexes
<1>4. ExactRows'
  BY UpdateExact
<1>5. ASSUME Roomy, NEW x \in Indexes, Plain(x)'
      PROVE  leaf'[x] = EntriesOf(GivenKeys(x)', Live')
  <2> DEFINE K == GivenKeys(x)  J == GivenKeys(x)'  ix == IxCols(x)  M == Changes(x, R, set)
  <2>1. J = [r \in DOMAIN rows |-> KeyBytes(Parsed, ix, given'[r])]
    BY <1>1, <1>2 DEF GivenKeys, IxCols
  <2>2. K = [r \in DOMAIN rows |-> KeyBytes(Parsed, ix, given[r])]
    BY DEF GivenKeys
  <2>3. Plain(x)
    BY <1>1, <1>5 DEF Plain, IxCols
  <2>4. leaf[x] = EntriesOf(K, Live)
    BY <1>5, <2>3 DEF LInv, LeavesKept
  <2>5. Live \subseteq DOMAIN rows
    BY DEF Live
  <2>6. /\ Indexed(Parsed, ix) /\ Range(ix) \subseteq ColNums
        /\ \A i \in ColNums : Parsed[i].type = def.cols[i].type
    BY IndexedHere, TransactionColumns DEF LInv, RInv
  <2>7. \A r \in R : IndexKey(x, Values(r)) = K[r]
    BY <1>5, <2>3, RowKeys
  <2>8. ASSUME NEW r \in R PROVE IndexKey(x, Now(r, set)) = J[r]
    <3> DEFINE a == Asked(r, set)  b == Now(r, set)
    <3>1. given'[r] = a
      BY <1>1
    <3>2. ExactIn(Parsed, ix, a)
      <4>1. ASSUME NEW i \in Range(ix) PROVE IsValue(given'[r][i]) /\ IsExact(Parsed[i].type, given'[r][i])
        <5>1. i \in ColNums \ lossy' /\ r \in Live'
          BY <1>1, <1>5, <2>6 DEF Plain, IxCols
        <5>2. IsExact(Parsed[i].type, given'[r][i])
          BY <1>1, <1>3, <1>4, <2>6, <5>1 DEF ExactRows
        <5>3. WellFormed(Parsed', given'[r])
          BY <5>1 DEF RInv, RowsKept, Kept
        <5>4. QED
          BY <1>2, <5>1, <5>2, <5>3 DEF WellFormed
      <4>2. QED
        BY <3>1, <4>1 DEF ExactIn
    <3>3. AsRead(Parsed, ix, a, b)
      <4>1. AsRead(Parsed, ix, given[r], Values(r))
        BY <1>5, <2>3, RowKeys
      <4>2. ASSUME NEW i \in Range(ix) PROVE b[i] = a[i] \/ b[i] = Canonical(Parsed[i].type, a[i])
        <5>1. i \in ColNums
          BY <2>6
        <5>2. CASE i \in DOMAIN set
          BY <5>1, <5>2 DEF Now, Asked
        <5>3. CASE i \notin DOMAIN set
          <6>1. b[i] = Values(r)[i] /\ a[i] = given[r][i]
            BY <5>1, <5>3 DEF Now, Asked
          <6>2. QED
            BY <4>1, <6>1 DEF AsRead
        <5>4. QED
          BY <5>2, <5>3
      <4> HIDE DEF a, b
      <4>3. QED
        BY <4>2 DEF AsRead
    <3> HIDE DEF a, b
    <3>4. KeyBytes(Parsed, ix, a) = KeyBytes(Parsed, ix, b)
      BY <2>6, <3>2, <3>3, KeysAgree
    <3>5. J[r] = KeyBytes(Parsed, ix, a)
      BY <2>1, <2>5, <3>1
    <3>6. QED
      BY <3>4, <3>5, IndexKeyBytes DEF b
  <2>9. Agree(K, J, Live \ M)
    <3>1. ASSUME NEW r \in Live \ M PROVE J[r] = K[r]
      <4>1. CASE r \in R
        <5>1. [key |-> IndexKey(x, Values(r)), row |-> r] = [key |-> IndexKey(x, Now(r, set)), row |-> r]
          BY <4>1 DEF Changes
        <5>2. IndexKey(x, Values(r)) = IndexKey(x, Now(r, set))
          <6> DEFINE e == [key |-> IndexKey(x, Values(r)), row |-> r]
                     f == [key |-> IndexKey(x, Now(r, set)), row |-> r]
          <6>1. e.key = IndexKey(x, Values(r)) /\ f.key = IndexKey(x, Now(r, set))
            OBVIOUS
          <6>2. QED
            BY <5>1, <6>1
        <5>3. QED
          BY <2>7, <2>8, <4>1, <5>2
      <4>2. CASE r \notin R
        BY <1>1, <2>1, <2>2, <2>5, <4>2
      <4>3. QED
        BY <4>1, <4>2
    <3> HIDE DEF J, K, M
    <3>2. QED
      BY <3>1 DEF Agree
  <2>10. M \subseteq R
    BY DEF Changes
  <2>11. leaf'[x] = (leaf[x] \ {[key |-> IndexKey(x, Values(r)), row |-> r] : r \in M})
                      \cup {[key |-> IndexKey(x, Now(r, set)), row |-> r] : r \in M}
    BY UpdateLeaf
  <2> HIDE DEF J, K, M
  <2>12. leaf'[x] = (leaf[x] \ EntriesOf(K, M)) \cup EntriesOf(J, M)
    <3>1. {[key |-> IndexKey(x, Values(r)), row |-> r] : r \in M} = EntriesOf(K, M)
      BY <2>7, <2>10 DEF EntriesOf
    <3>2. {[key |-> IndexKey(x, Now(r, set)), row |-> r] : r \in M} = EntriesOf(J, M)
      BY <2>8, <2>10 DEF EntriesOf
    <3>3. QED
      BY <2>11, <3>1, <3>2
  <2>13. EntriesNew(K, J, Live, M)
    <3>1. M \in SUBSET Live
      BY <2>10
    <3>2. QED
      BY <2>9, <3>1, EntriesMoved
  <2>14. QED
    BY <1>1, <2>4, <2>12, <2>13 DEF J, EntriesNew
<1>6. LeavesKept'
  BY <1>1, <1>3, <1>5 DEF LeavesKept, Roomy
<1>7. QED
  BY <1>4, <1>6

LEMMA InitIndexed == Init => LInv
<1> SUFFICES ASSUME Init PROVE LInv
  OBVIOUS
<1>1. RInv
  BY InitKept
<1>2. Accepted(def) /\ Live = {} /\ \A x \in Indexes : leaf[x] = {}
  BY DEF Init, Live, Indexes
<1>3. ExactRows /\ LeavesKept
  BY <1>2 DEF ExactRows, LeavesKept, EntriesOf
<1>4. QED
  BY <1>1, <1>2, <1>3 DEF LInv

LEMMA StepIndexed == LInv /\ [Next]_vars => LInv'
<1> SUFFICES ASSUME LInv, [Next]_vars PROVE LInv'
  OBVIOUS
<1>1. RInv' /\ TInv'
  BY StepKept DEF LInv, RInv
<1>2. Accepted(def)'
  <2>1. def' = def
    BY Zenon DEF Next, Insert, Update, Delete, Commit, Reopen, vars
  <2>2. QED
    BY <2>1 DEF LInv
<1>3. CASE \E vals \in Inputs[def] : Insert(vals)
  BY <1>1, <1>2, <1>3, InsertIndexed DEF LInv
<1>4. CASE \E R \in SUBSET Live \ {{}}, set \in Sets[def] : Update(R, set)
  BY <1>1, <1>2, <1>4, UpdateIndexed DEF LInv
<1>5. CASE \E R \in SUBSET Live \ {{}} : Delete(R)
  BY <1>1, <1>2, <1>5, DeleteIndexed DEF LInv
<1>6. CASE Reopen \/ UNCHANGED vars
  <2>1. UNCHANGED <<def, page, rows, leaf, given, lossy>>
    BY <1>6 DEF Reopen, vars
  <2>2. /\ Live' = Live /\ Parsed' = Parsed /\ ColNums' = ColNums /\ Indexes' = Indexes
        /\ Roomy' = Roomy
    BY <2>1 DEF Live, Parsed, ColNums, Indexes, Roomy
  <2>3. \A x : GivenKeys(x)' = GivenKeys(x) /\ Plain(x)' = Plain(x)
    BY <2>1, <2>2 DEF GivenKeys, Plain, IxCols
  <2>4. ExactRows'
    BY <2>1, <2>2 DEF LInv, ExactRows
  <2>5. LeavesKept'
    BY <2>1, <2>2, <2>3 DEF LInv, LeavesKept
  <2>6. QED
    BY <1>1, <1>2, <2>4, <2>5 DEF LInv
<1>7. QED
  BY <1>3, <1>4, <1>5, <1>6, Zenon DEF Next

\* A lookup with exact values in an index over columns that were given such values only finds the
\* rows whose columns have these values, all of them and no other, after any sequence of inserts,
\* updates, deletes and reopenings: Index.EncodeKey (index.go:30) tells values apart, in composite
\* keys too, and Insert and Update make the keys of values given and of values read back the same.
THEOREM LookupsTrue == Spec => []LookupsExact
<1>1. LInv => LookupsExact
  <2>1. SUFFICES ASSUME LInv, NEW x \in Indexes, Roomy, Plain(x), NEW vals \in Inputs[def],
                        \A i \in Range(IxCols(x)) : IsExact(def.cols[i].type, vals[i])
                 PROVE  Taken(x, IndexKey(x, vals))
                          = {r \in Live : \A i \in Range(IxCols(x)) :
                                            Same(def.cols[i].type, Values(r)[i], vals[i])}
    BY DEF LookupsExact, Plain, IxCols
  <2> DEFINE ix == IxCols(x)  K == GivenKeys(x)  key == KeyBytes(Parsed, ix, vals)
  <2>2. /\ Indexed(Parsed, ix) /\ Range(ix) \subseteq ColNums /\ def \in Schemas
        /\ \A i \in ColNums : Parsed[i].type = def.cols[i].type
    BY <2>1, IndexedHere, TransactionColumns DEF LInv, RInv
  <2>3. ExactIn(Parsed, ix, vals)
    <3>1. \A i \in ColNums : IsValue(vals[i])
      BY <2>1, <2>2, InputAssumption DEF ColNums
    <3>2. QED
      BY <2>1, <2>2, <3>1 DEF ExactIn
  <2>4. Taken(x, IndexKey(x, vals)) = {r \in Live : K[r] = key}
    <3>1. leaf[x] = EntriesOf(K, Live) /\ IndexKey(x, vals) = key
      BY <2>1, IndexKeyBytes DEF LInv, LeavesKept
    <3> HIDE DEF K, key
    <3>3. Taken(x, key) = {e.row : e \in {d \in EntriesOf(K, Live) : d.key = key}}
      BY <3>1 DEF Taken
    <3>4. ASSUME NEW r PROVE r \in Taken(x, key) <=> r \in Live /\ K[r] = key
      <4>1. ASSUME r \in Live, K[r] = key PROVE r \in Taken(x, key)
        <5> DEFINE e == [key |-> K[r], row |-> r]
        <5>1. e \in EntriesOf(K, Live)
          BY <4>1 DEF EntriesOf
        <5>2. e.key = key /\ e.row = r
          BY <4>1
        <5> HIDE DEF e
        <5>3. QED
          BY <3>3, <5>1, <5>2
      <4>2. ASSUME r \in Taken(x, key) PROVE r \in Live /\ K[r] = key
        <5>1. PICK e \in EntriesOf(K, Live) : e.key = key /\ e.row = r
          BY <3>3, <4>2
        <5>2. PICK q \in Live : e = [key |-> K[q], row |-> q]
          BY DEF EntriesOf
        <5>3. e.key = K[q] /\ e.row = q
          BY <5>2
        <5>4. QED
          BY <5>1, <5>3
      <4>3. QED
        BY <4>1, <4>2
    <3>5. QED
      BY <3>1, <3>4
  <2>5. ASSUME NEW r \in Live
        PROVE  K[r] = key <=> \A i \in Range(ix) : Same(def.cols[i].type, Values(r)[i], vals[i])
    <3> DEFINE v == Values(r)
    <3>1. ExactIn(Parsed, ix, v) /\ IndexKey(x, v) = K[r]
      BY <2>1, RowKeys
    <3> HIDE DEF v
    <3>2. KeyBytes(Parsed, ix, v) = key <=> SameIn(Parsed, ix, v, vals)
      BY <2>2, <2>3, <3>1, KeysTell
    <3>3. K[r] = KeyBytes(Parsed, ix, v)
      BY <3>1, IndexKeyBytes
    <3>4. SameIn(Parsed, ix, v, vals) <=> \A i \in Range(ix) : Same(def.cols[i].type, v[i], vals[i])
      BY <2>2 DEF SameIn
    <3>5. QED
      BY <3>2, <3>3, <3>4 DEF v
  <2> HIDE DEF K, key
  <2>6. QED
    BY <2>4, <2>5
<1>2. QED
  BY <1>1, InitIndexed, StepIndexed, PTL DEF Spec
=============================================================================
