---------------------------- MODULE SlottedPage ----------------------------
(***************************************************************************)
(* What a data page is to the rest of the library: a growing list of       *)
(* numbered rows, each with its own data, and an account of the bytes      *)
(* left.  Module TableTxn works with pages of this kind; module DataPage   *)
(* shows that the byte layout gives them.                                  *)
(***************************************************************************)
EXTENDS Naturals, Sequences

CONSTANTS Room,     \* bytes for the slot directory and the rows together
          SlotLen   \* bytes of one entry of the directory

VARIABLES rows,     \* rows[i]: what slot i - 1 holds
          left      \* bytes between the directory and the rows

vars == <<rows, left>>

Kinds == {"row", "ptr", "payload", "dead"}

Init == /\ rows = <<>>
        /\ left = Room

RowBytes(rs) == LET sum[i \in 0..Len(rs)] == IF i = 0 THEN 0 ELSE sum[i - 1] + Len(rs[i].data)
                IN sum[Len(rs)]

\* One row more, with the next number; no other row is touched.
Add == LET was == rows  now == rows'
       IN /\ Len(now) = Len(was) + 1
          /\ SubSeq(now, 1, Len(was)) = was
          /\ now[Len(now)].kind \in {"row", "payload"}
          /\ left' + Len(now[Len(now)].data) + SlotLen = left

\* Row i gets new data; every other live row keeps its number and its data, and the
\* bytes of the dead ones are given back.
Replace == LET was == rows  now == rows'
           IN /\ Len(now) = Len(was)
              /\ \E i \in DOMAIN was :
                   /\ was[i].kind \in {"row", "ptr"}
                   /\ now[i].kind \in {"row", "ptr"}
                   /\ \A j \in DOMAIN was \ {i} :
                        now[j] = IF was[j].kind = "dead" THEN [was[j] EXCEPT !.data = <<>>] ELSE was[j]
              /\ left' + SlotLen * Len(now) + RowBytes(now) = Room

\* A row dies; its number is not used again, and its bytes stay where they are.
Remove == LET was == rows  now == rows'
          IN /\ Len(now) = Len(was)
             /\ \E i \in DOMAIN was : /\ was[i].kind # "dead"
                                      /\ now = [was EXCEPT ![i].kind = "dead"]
             /\ left' = left

Next == Add \/ Replace \/ Remove

Spec == Init /\ [][Next]_vars
=============================================================================
