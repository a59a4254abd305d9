----------------------------- MODULE MCTableTxn -----------------------------
(***************************************************************************)
(* TLC instances of TableTxn.                                              *)
(***************************************************************************)
EXTENDS TableTxn, TLC

\* Every key takes five bytes in the leaf (a null flag and a Long).
MCKeyLen == [k \in Keys |-> 5]
MCSymmetry == Permutations(Keys)
=============================================================================
