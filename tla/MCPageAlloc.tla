---------------------------- MODULE MCPageAlloc ----------------------------
(***************************************************************************)
(* TLC instances of PageAlloc.                                             *)
(***************************************************************************)
EXTENDS PageAlloc, TLC
=============================================================================
