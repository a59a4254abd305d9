---------------------------- MODULE MCTypedTable ----------------------------
(***************************************************************************)
(* TLC instances of TypedTable: definitions, the values given to them,     *)
(* conditions and queries.                                                 *)
(***************************************************************************)
EXTENDS TypedTable

Column(type, len, counts) == [type |-> type, len |-> len, nullable |-> FALSE, auto |-> counts]
Index(over, unique) == [cols |-> over, unique |-> unique, primary |-> unique]
Kind(go, n) == Value(go, n)

\* An AutoNumber key and a text of two characters, found without regard to case.
People == [cols |-> <<Column("LongInt", 0, TRUE), Column("Text", 2, FALSE), Column("Int", 3, FALSE)>>,
           indexes |-> <<Index(<<1>>, TRUE), Index(<<2>>, FALSE)>>]
PeopleRows == {<<Nil, Text(<<100>>), Kind("int16", 5)>>, <<Nil, Text(<<101>>), Kind("int32", -32)>>,
               <<Nil, Text(<<150, 100>>), Kind("int64", 5)>>, <<Nil, Text(<<>>), Kind("int", 32)>>}
PeopleSets == {(2 :> Text(<<103>>)), (2 :> Nil), (3 :> Kind("int16", -32))}

\* A composite key of texts whose parts could run together, and two sizes of fixed columns.
Pairs == [cols |-> <<Column("Byte", 2, FALSE), Column("Text", 0, FALSE), Column("Binary", 0, FALSE),
                     Column("Text", 3, FALSE)>>,
          indexes |-> <<[cols |-> <<2, 4>>, unique |-> TRUE, primary |-> FALSE]>>]
PairsRows == {<<Kind("byte", 7), Text(<<100>>), Nil, Text(<<102, 127, 104>>)>>,
              <<Kind("int", 0), Text(<<100, 127, 102>>), [go |-> "bytes", s |-> <<1, 2>>], Text(<<104>>)>>,
              <<Nil, Text(<<100>>), Nil, Text(<<103, 127, 104>>)>>, <<Kind("int64", 7), Text(<<Mark, 100>>), Nil, Text(<<102, Zero>>)>>}
PairsSets == {(4 :> Text(<<104>>)), (1 :> Kind("int", 1) @@ 3 :> Nil)}

\* Numbers: what is paid, a quantity, a switch and a date.
Amounts == [cols |-> <<Column("Money", 0, FALSE), Column("Double", 0, FALSE), Column("Boolean", 0, FALSE),
                       Column("DateTime", 0, FALSE)>>,
            indexes |-> <<Index(<<1>>, TRUE), Index(<<3, 4>>, FALSE)>>]
AmountsRows == {<<Kind("float64", 56), Kind("float64", 2), Kind("bool", 1), Kind("time", 9)>>,
                <<Kind("int", 4), Kind("float32", 2), Kind("bool", 0), Nil>>,
                <<Kind("float64", 57), Kind("float64", -1), Nil, Kind("time", 9)>>,
                <<Kind("int64", 4), Nil, Kind("bool", 1), Kind("time", 1)>>}
AmountsSets == {(1 :> Kind("float64", 57)), (2 :> Nil @@ 4 :> Kind("time", 1))}

\* As CREATE TABLE makes it: no index, whatever it says of keys.
Stock == SqlTable(<<[type |-> "LongInt", len |-> 0, key |-> TRUE, notnull |-> FALSE, auto |-> FALSE],
                    [type |-> "Float", len |-> 0, key |-> FALSE, notnull |-> TRUE, auto |-> FALSE]>>)
StockRows == {<<Kind("int64", 1), Kind("float64", 5)>>, <<Kind("int64", -1), Kind("float64", 3)>>,
              <<Kind("int32", 2048), Kind("float64", 3)>>, <<Kind("int64", 1), Nil>>}
StockSets == {(1 :> Nil), (2 :> Kind("float32", -5))}

\* Nine columns, whose null bits take two bytes.
Flags == [cols |-> [i \in 1..9 |-> Column("Boolean", 0, FALSE)], indexes |-> <<Index(<<9>>, FALSE)>>]
FlagsRows == {[i \in 1..9 |-> IF i \in T THEN Kind("bool", 1) ELSE Nil] : T \in {{1}, {8}, {9}}}
FlagsSets == {(9 :> Kind("bool", 0))}

\* A caller's Length that is too short, and an AutoNumber that its index has no key for.
Cramped == [cols |-> <<Column("LongInt", 1, FALSE), Column("Int", 0, FALSE)>>,
            indexes |-> <<Index(<<1>>, FALSE)>>]
CrampedSets == {(2 :> Kind("int16", 1))}
CrampedRows == {<<Kind("int32", 5), Kind("int16", -1)>>, <<Kind("int32", 2047), Nil>>}
Serials == [cols |-> <<Column("BigInt", 0, TRUE), Column("Byte", 0, FALSE)>>, indexes |-> <<Index(<<1>>, TRUE)>>]
SerialsSets == {(1 :> Kind("int64", 1)), (2 :> Kind("int", 0))}
SerialsRows == {<<Nil, Kind("byte", 1)>>, <<Nil, Kind("int", 8)>>}

\* Refused: an index over a column there is not.
Refused == [Serials EXCEPT !.indexes = <<Index(<<3>>, TRUE)>>]

MCSchemas == {People, Pairs, Amounts, Stock, Flags, Cramped, Serials, Refused}
MCInputs == [d \in MCSchemas |->
               CASE d = People -> PeopleRows [] d = Pairs -> PairsRows [] d = Amounts -> AmountsRows
                 [] d = Stock -> StockRows [] d = Flags -> FlagsRows [] d = Cramped -> CrampedRows
                 [] OTHER -> SerialsRows]
MCSets == [d \in MCSchemas |->
             CASE d = People -> PeopleSets [] d = Pairs -> PairsSets [] d = Amounts -> AmountsSets
               [] d = Stock -> StockSets [] d = Flags -> FlagsSets [] d = Cramped -> CrampedSets
               [] OTHER -> SerialsSets]

Cond(col, op, val, logic) == [col |-> col, op |-> op, val |-> val, logic |-> logic]
MCWheres == {<<>>} \cup {<<Cond(2, o1, Kind("int64", 2), "AND"), Cond(1, o2, Kind("int64", 1), l)>> :
                          o1 \in {"=", "<>", ">="}, o2 \in {"=", "<>", "<", "IS NULL"}, l \in {"AND", "OR"}}
Order(col, desc) == [col |-> col, desc |-> desc]
Select(where, offset, limit, fields, order) ==
  [where |-> where, offset |-> offset, limit |-> limit, fields |-> fields, order |-> order]
MCQueries == {Select(<<>>, 0, -1, {1, 2}, <<Order(2, FALSE), Order(1, TRUE)>>),
              Select(<<>>, 1, 2, {1}, <<Order(1, FALSE)>>),
              Select(<<Cond(1, "IN", [go |-> "list", s |-> <<Kind("int", 4), Kind("int", 1)>>], "AND"),
                       Cond(2, "IS NOT NULL", Nil, "OR")>>, 0, -1, {2, 1}, <<Order(1, TRUE)>>)}
=============================================================================
