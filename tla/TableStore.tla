----------------------------- MODULE TableStore -----------------------------
(***************************************************************************)
(* What a table promises its callers: a set of rows, each at an address    *)
(* (page, slot) that names that row and no other row for the life of the   *)
(* table, changed only by whole Insert, Update and Delete calls.  Nothing  *)
(* of the page format, the index or the working copy is visible here.      *)
(***************************************************************************)
EXTENDS Naturals

CONSTANTS Keys,     \* values of the indexed column
          Lens,     \* the rest of a row, which only its encoded length stands for
          Keep      \* "this column is not in the values map" of an Update

VARIABLES rows,     \* the rows of the table, by address
          used      \* every address handed out so far

vars == <<rows, used>>

Row == [key : Keys, len : Lens]

Init == /\ rows = [a \in {} |-> {}]
        /\ used = {}

\* Table.Insert: one row more, at an address no row ever had.
Insert == LET old == rows  new == rows'
          IN \E a \in used' \ used :
               /\ used' = used \cup {a}
               /\ DOMAIN new = DOMAIN old \cup {a}
               /\ new[a] \in Row
               /\ \A b \in DOMAIN old : new[b] = old[b]

\* A row with the columns an Update names overwritten.
Assign(r, k, l) == [key |-> IF k = Keep THEN r.key ELSE k,
                    len |-> IF l = Keep THEN r.len ELSE l]

\* Table.Update: the same assignment to every selected row, and to no other.
Update == LET old == rows  new == rows'
          IN /\ DOMAIN new = DOMAIN old
             /\ \E S \in SUBSET DOMAIN old, k \in Keys \cup {Keep}, l \in Lens \cup {Keep} :
                  \A a \in DOMAIN old :
                    new[a] = IF a \in S THEN Assign(old[a], k, l) ELSE old[a]
             /\ used \subseteq used'

\* Table.Delete and Table.DeleteAt: the selected rows go, the others stay as they are.
Delete == LET old == rows  new == rows'
          IN /\ DOMAIN new \subseteq DOMAIN old
             /\ \A a \in DOMAIN new : new[a] = old[a]
             /\ used' = used

Next == Insert \/ Update \/ Delete

Spec == Init /\ [][Next]_vars
=============================================================================
