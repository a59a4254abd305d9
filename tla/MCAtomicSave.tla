---------------------------- MODULE MCAtomicSave ----------------------------
(***************************************************************************)
(* TLC instances of AtomicSave.                                            *)
(***************************************************************************)
EXTENDS AtomicSave
=============================================================================
