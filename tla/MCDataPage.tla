----------------------------- MODULE MCDataPage -----------------------------
(***************************************************************************)
(* TLC instances of DataPage.                                              *)
(***************************************************************************)
EXTENDS DataPage

CONSTANTS short, mid, long

\* Rows shorter than, as long as and longer than an overflow pointer.
MCDataLen == [v \in Data |-> CASE v = short -> 3 [] v = mid -> 4 [] v = long -> 6]
=============================================================================
