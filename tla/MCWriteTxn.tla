----------------------------- MODULE MCWriteTxn -----------------------------
(***************************************************************************)
(* TLC instances of WriteTxn.                                              *)
(***************************************************************************)
EXTENDS WriteTxn
=============================================================================
