------------------------------ MODULE Catalog ------------------------------
(***************************************************************************)
(* What write transactions promise: the tables of the database change by   *)
(* one call at a time, each on top of all those before it.  A row stands   *)
(* for the call that wrote it.                                             *)
(***************************************************************************)
EXTENDS Naturals

CONSTANTS Names,    \* table names
          Calls     \* numbers of calls

VARIABLE tables     \* the rows of each table there is

Init == tables = [n \in {} |-> {}]

Create == LET was == tables  now == tables'
          IN \E n \in Names \ DOMAIN was :
               now = [m \in DOMAIN was \cup {n} |-> IF m = n THEN {} ELSE was[m]]

Drop == LET was == tables  now == tables'
        IN \E n \in DOMAIN was : now = [m \in DOMAIN was \ {n} |-> was[m]]

\* Insert, Update, Delete.
Write == LET was == tables  now == tables'
         IN \E n \in DOMAIN was, c \in Calls :
              /\ \A m \in DOMAIN was : c \notin was[m]
              /\ now = [was EXCEPT ![n] = @ \cup {c}]

Next == Create \/ Drop \/ Write

Spec == Init /\ [][Next]_tables
=============================================================================
