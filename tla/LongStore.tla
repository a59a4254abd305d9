----------------------------- MODULE LongStore -----------------------------
(***************************************************************************)
(* What long (Memo and OLE) values promise: each row has the value it was  *)
(* last given, in full, whatever is stored or freed for other rows.        *)
(***************************************************************************)
EXTENDS Naturals, Sequences

CONSTANTS Contents,   \* what a long value can read as
          Gone        \* a deleted row has none

VARIABLE vals         \* the values of the rows of a page, by row number

vars == vals

Init == vals = <<>>

\* One row more; one row with another value, or with none; or all of them gone.
Insert == LET was == vals  now == vals'
          IN \E c \in Contents : now = Append(was, c)

Change(i, Ends) == LET was == vals  now == vals'
                   IN /\ was[i] # Gone
                      /\ DOMAIN now = DOMAIN was
                      /\ now[i] \in Ends
                      /\ \A j \in DOMAIN was \ {i} : now[j] = was[j]

Update == \E i \in DOMAIN vals : Change(i, Contents)

Delete == \E i \in DOMAIN vals : Change(i, {Gone})

Drop == vals' = <<>>

Next == Insert \/ Update \/ Delete \/ Drop

Spec == Init /\ [][Next]_vars
=============================================================================
