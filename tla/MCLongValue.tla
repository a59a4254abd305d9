---------------------------- MODULE MCLongValue ----------------------------
(***************************************************************************)
(* TLC instances of LongValue.                                             *)
(***************************************************************************)
EXTENDS LongValue

CONSTANTS inline, single, chain2, chain3

\* With chunks of five bytes and a reference of one: a value in its row, a value in one
\* chunk, one in two chunks of which the last can share a page, and one in three whose
\* last chunk is as short as can be.
MCLenOf == [v \in Values |-> CASE v = inline -> 1 [] v = single -> 2
                               [] v = chain2 -> 7 [] v = chain3 -> 11]
=============================================================================
