---------------------------- MODULE ColumnValue -----------------------------
(***************************************************************************)
(* Values and column types (row.go, codec.go, encoding.go): which Go       *)
(* values a column accepts, what of them is written, what is read back,    *)
(* and which key an index has for them.  The four tables of kinds below    *)
(* differ from each other in the code as they do here.                     *)
(*                                                                         *)
(* A value is a record of its Go kind and its content.  The content of a   *)
(* number is a one-element sequence, that of a text its characters, where  *)
(* a number as a text is the number itself ("5" is <<5>>).                 *)
(***************************************************************************)
EXTENDS Integers, Sequences, SequencesExt

\* s without its elements in X.
Without(s, X) == FoldLeft(LAMBDA t, x : IF x \in X THEN t ELSE Append(t, x), <<>>, s)

CONSTANTS Base,     \* number of values of a byte (256 in the code)
          Letters,  \* characters that are not numbers
          Upper,    \* upper-case letters, each the successor of its lower-case letter
          Wide,     \* characters beyond the first 2^8, and the character 0
          Astral,   \* characters beyond the first 2^16, which UTF-16 writes as a pair
          Dips      \* numbers whose float64 times 10000 comes out just below them (0.57)

Lost == 65533       \* U+FFFD
Mark == 65279       \* U+FEFF, which UTF-16 writes as the bytes 0xFF 0xFE
Half == 56320       \* the second half of any pair
Zero == 65535       \* the character 0, and the byte 0 among characters

ASSUME ValueAssumption == /\ Base \in Nat \ {0, 1} /\ Base % 2 = 0
                          /\ Letters \subseteq Nat /\ Upper \cup Wide \subseteq Letters
                          /\ Astral \subseteq Wide /\ {Mark, Zero} \subseteq Wide \ Astral
                          /\ Dips \subseteq Int

Value(go, n) == [go |-> go, s |-> <<n>>]
Text(s) == [go |-> "string", s |-> s]
Nil == [go |-> "nil", s |-> <<>>]
Number(v) == v.s[1]

\* A kind and a content; the kinds but for these have one number.
IsValue(v) == /\ v = [go |-> v.go, s |-> v.s] /\ v.s \in Seq(Int)
              /\ v.go \notin {"nil", "string", "bytes"} => Len(v.s) = 1

Size == [Boolean |-> 1, Byte |-> 1, Int |-> 2, LongInt |-> 4, BigInt |-> 8, Money |-> 8,
         Float |-> 4, Double |-> 8, DateTime |-> 8, Text |-> 0, Binary |-> 0]
Types == DOMAIN Size
Variable(t) == t \in {"Text", "Binary"}
Integral == {"Byte", "Int", "LongInt", "BigInt"}

\* validateColumnValue: the kinds a column takes.
Accepts == [Boolean |-> {"bool"},  Byte |-> {"byte", "int", "int64"},
            Int |-> {"int16", "int", "int32", "int64"},  LongInt |-> {"int32", "int", "int64"},
            BigInt |-> {"int64", "int", "int32", "int16"},
            Money |-> {"float64", "float32", "int", "int64", "int32"},
            Float |-> {"float32", "float64"},  Double |-> {"float64", "float32"},
            DateTime |-> {"time"},  Text |-> {"string", "bytes"},  Binary |-> {"bytes"}]

\* writeColumnValue, encodeVariableValue: the kinds that are written; the others become 0.
Writes == [Accepts EXCEPT !.Byte = {"byte", "int"}, !.Int = {"int16", "int", "int32"},
                          !.BigInt = {"int64", "int", "int32"},
                          !.Money = {"float64", "float32", "int"}]

\* EncodeKey: the kinds an index has a key for; the others get that of 0 or of "".
Keyed == [Writes EXCEPT !.Byte = {"byte", "int", "int64"},
                        !.Int = {"int16", "int", "int32", "int64"},
                        !.LongInt = {"int32", "int", "int64", "uint32"},
                        !.BigInt = {"int64", "int"},
                        !.Float = {"float32", "float64", "int"},
                        !.Double = {"float64", "float32", "int"},
                        !.Text = {"string"}]

\* readColumnValue, readVariableValue: the kind a column reads as.
Native == [Boolean |-> "bool", Byte |-> "byte", Int |-> "int16", LongInt |-> "int32",
           BigInt |-> "int64", Money |-> "float64", Float |-> "float32", Double |-> "float64",
           DateTime |-> "time", Text |-> "string", Binary |-> "bytes"]

-----------------------------------------------------------------------------
(* Numbers in bytes, least significant first, two's complement *)

\* Power[k]: Base to the power k.
Power[k \in 0..8] == IF k = 0 THEN 1 ELSE Base * Power[k - 1]

Bytes(t, n) == [j \in 1..Size[t] |-> (n \div Power[j - 1]) % Base]
Signed(b, n) == IF 2 * n >= Power[Len(b)] THEN n - Power[Len(b)] ELSE n
FromBytes(t, b) ==
  LET n == MapThenSumSet(LAMBDA j : b[j] * Power[j - 1], DOMAIN b)
  IN IF t = "Boolean" THEN (IF n # 0 THEN 1 ELSE 0)
     ELSE IF t = "Byte" THEN n ELSE Signed(b, n)
InRange(t, n) == FromBytes(t, Bytes(t, n)) = n

\* writeColumnValue: true is all bits, and int64(val * 10000) truncates.
Fixed(t, v) ==
  IF v.go \notin Writes[t] THEN 0
  ELSE IF t = "Boolean" THEN Number(v) * (Base - 1)
  ELSE IF t = "Money" /\ v.go # "int" /\ Number(v) \in Dips THEN Number(v) - 1
  ELSE Number(v)

-----------------------------------------------------------------------------
(* Texts *)

\* encodeVariableValue: a longer text of narrow characters as its bytes behind a mark; any other
\* in UTF-16, two bytes each, as many units as it has characters, so that pairs push out its end.
Compressed(s) == Len(s) > 2 /\ Range(s) \cap Wide = {}
Units(s) == FlattenSeq([i \in DOMAIN s |-> IF s[i] \in Astral THEN <<s[i], Half>> ELSE <<s[i]>>])
TextBytes(s) ==
  IF Compressed(s) THEN <<Mark, Zero>> \o s
  ELSE FlattenSeq([i \in DOMAIN s |-> <<Units(s)[i], Zero>>])

\* readVariableValue, readUTF16String: behind a mark the bytes as they are; otherwise UTF-16
\* without the zeros at its end, in which half a pair reads as U+FFFD.
TextOf(b) ==
  LET u == [i \in 1..(Len(b) \div 2) |-> b[2 * i - 1]]
      end == Max({0} \cup {i \in DOMAIN u : u[i] # Zero})
      split(i) == u[i] \in Astral /\ (i = end \/ u[i + 1] # Half)
  IN IF Len(b) >= 2 /\ b[1] = Mark THEN SubSeq(b, 3, Len(b))
     ELSE Without([i \in 1..end |-> IF split(i) THEN Lost ELSE u[i]], {Half})

Lower(s) == [i \in DOMAIN s |-> IF s[i] \in Upper THEN s[i] - 1 ELSE s[i]]

-----------------------------------------------------------------------------
(* Operations *)

\* validateColumnValue; c is a column of a handle or of a parsed definition.
Valid(c, v) == \/ v = Nil /\ (c.nullable \/ c.auto)
               \/ /\ v.go \in Accepts[c.type]
                  /\ c.type \in Integral => InRange(c.type, Number(v))
                  /\ Variable(c.type) /\ c.len > 0 => Len(v.s) <= c.len

\* The bytes of a written value; read back, it has the kind of the column.
Written(t, v) == IF ~ Variable(t) THEN Bytes(t, Fixed(t, v))
                 ELSE IF t = "Text" THEN TextBytes(v.s) ELSE v.s
Read(t, b) == IF ~ Variable(t) THEN Value(Native[t], FromBytes(t, b))
              ELSE [go |-> Native[t], s |-> IF t = "Text" THEN TextOf(b) ELSE b]

\* EncodeKey of the column's codec: the bytes of a number, most significant first and with its
\* sign flipped, so that bytes order as numbers do; of a text those in lower case.
SignFlipped(t, n) == Reverse(Bytes(t, n + Power[Size[t]] \div 2))
KeyOf(t, v) ==
  LET keyed == v.go \in Keyed[t]  n == IF keyed THEN Number(v) ELSE 0
  IN IF Variable(t) THEN (IF ~ keyed THEN <<>> ELSE IF t = "Text" THEN Lower(v.s) ELSE v.s)
     ELSE IF t \in {"Boolean", "Byte"} THEN <<n % Base>> ELSE SignFlipped(t, n)
=============================================================================
