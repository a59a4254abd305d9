------------------------------ MODULE WriteTxn ------------------------------
(***************************************************************************)
(* Write transactions over the tables of a database, and the *Table        *)
(* handles that callers keep (database.go, table.go, row.go).              *)
(*                                                                         *)
(* A call works on a deep copy of the database, made from its bytes, and   *)
(* puts the copy in its place at the end; registered handles are updated   *)
(* where they are.  There is no lock and no check for conflicts: calls     *)
(* overlap when the predicate of an Update or Delete calls the database    *)
(* it is called by.                                                        *)
(*                                                                         *)
(* A row stands for the call that wrote it.  No two table names differ     *)
(* only in case.                                                           *)
(***************************************************************************)
EXTENDS Naturals, Sequences, SequencesExt, FiniteSets, FiniteSetsExt

CONSTANTS Names,      \* table names
          MaxCommits, \* bound: calls that commit
          MaxDepth    \* bound: calls within calls

ASSUME BoundsAssumption == MaxCommits \in Nat /\ MaxDepth \in Nat

VARIABLES disk,     \* the tables of db.data, by their numbers, dropped ones included
          reg,      \* db.tables: the handle of each name
          heap,     \* what each handle says of its table
          stack,    \* working copies of the calls that wait for their predicate
          commits,  \* calls committed
          nested    \* whether predicates call the database's writing methods

vars == <<disk, reg, heap, stack, commits, nested>>

Calls == 1..MaxCommits
Objects == Names \X Calls    \* a handle is known by its name and the call that made it
Def == [name : Names, rows : SUBSET Calls, live : BOOLEAN]
Handle == [name : Names, id : Nat, rows : SUBSET Calls]

LiveIds(d) == {i \in DOMAIN d : d[i].live}
NamesOf(d) == {d[i].name : i \in LiveIds(d)}

\* loadTablesFromMSysObjects: of two rows with one name the last counts.
Loaded(d) == [n \in NamesOf(d) |-> Max({i \in LiveIds(d) : d[i].name = n})]

\* deepClone: the handles of the copy are made from the bytes.
Clone == [data |-> disk, tabs |-> Loaded(disk)]

Fill(w, n) == [name |-> n, id |-> w.tabs[n], rows |-> w.data[w.tabs[n]].rows]

-----------------------------------------------------------------------------
(* replaceState *)

\* Mutant of Kept: dropped tables stay registered.
KeptAll(w) == DOMAIN reg
Kept(w) == DOMAIN reg \cap DOMAIN w.tabs

\* Mutant of Target: the target found for one name is not reset for the next.
TargetUnreset(w, n) == IF n \in Kept(w) THEN reg[n]
                       ELSE IF Kept(w) # {} THEN reg[CHOOSE m \in Kept(w) : TRUE]
                       ELSE <<n, commits + 1>>

\* The handle that table n of the copy goes to: the one of its name, or a new one.
Target(w, n) == IF n \in Kept(w) THEN reg[n] ELSE <<n, commits + 1>>

Registered(w) == [n \in Kept(w) \cup DOMAIN w.tabs |->
                    IF n \in DOMAIN w.tabs THEN Target(w, n) ELSE reg[n]]

\* Mutant of Handles: the handles of new tables are not filled.
HandlesOld(w) == DOMAIN heap
Handles(w) == DOMAIN heap \cup {Target(w, n) : n \in DOMAIN w.tabs}

Install(w) ==
  /\ commits < MaxCommits
  /\ commits' = commits + 1
  /\ disk' = w.data
  /\ reg' = Registered(w)
  /\ heap' = [o \in Handles(w) |-> IF \E n \in DOMAIN w.tabs : Target(w, n) = o
                                   THEN Fill(w, CHOOSE n \in DOMAIN w.tabs : Target(w, n) = o)
                                   ELSE heap[o]]

-----------------------------------------------------------------------------
(* The calls; one that fails changes nothing *)

Init == /\ disk = <<>>
        /\ reg = [n \in {} |-> <<>>]
        /\ heap = [o \in {} |-> <<>>]
        /\ stack = <<>>
        /\ commits = 0
        /\ nested \in BOOLEAN

\* What runs: the program, or a predicate that calls back.
Callable == stack = <<>> \/ nested

\* Mutant of Creatable: CreateTable does not ask for the name.
CreatableOver(n) == TRUE
Creatable(n) == n \notin DOMAIN reg

\* Mutant of NewDef: the pages left behind by a table of that name are taken over.
NewDefOver(w, n) == [name |-> n, live |-> TRUE,
                     rows |-> UNION {w.data[i].rows : i \in {j \in DOMAIN w.data : w.data[j].name = n}}]
NewDef(w, n) == [name |-> n, live |-> TRUE, rows |-> {}]

CreateTable(n) ==
  /\ Callable /\ Creatable(n)
  /\ LET w == Clone
     IN Install([data |-> Append(w.data, NewDef(w, n)),
                 tabs |-> [m \in DOMAIN w.tabs \cup {n} |->
                             IF m = n THEN Len(w.data) + 1 ELSE w.tabs[m]]])
  /\ UNCHANGED <<stack, nested>>

DropTable(n) ==
  /\ Callable
  /\ LET w == Clone
     IN /\ n \in DOMAIN w.tabs
        /\ Install([data |-> [w.data EXCEPT ![w.tabs[n]].live = FALSE],
                    tabs |-> [m \in DOMAIN w.tabs \ {n} |-> w.tabs[m]]])
  /\ UNCHANGED <<stack, nested>>

Written(w, id) == [w EXCEPT !.data[id].rows = @ \cup {commits + 1}]

\* Insert and DeleteAt, through any handle a caller still has: the table is found by the
\* name in the handle.
Insert(o) ==
  /\ Callable
  /\ LET w == Clone
     IN /\ heap[o].name \in DOMAIN w.tabs
        /\ Install(Written(w, w.tabs[heap[o].name]))
  /\ UNCHANGED <<stack, nested>>

\* Update and Delete: the copy is made, then the predicate is called for each row, ...
Begin(o) ==
  /\ Callable /\ Len(stack) < MaxDepth
  /\ LET w == Clone
     IN /\ heap[o].name \in DOMAIN w.tabs
        /\ stack' = Append(stack, [copy |-> w, id |-> w.tabs[heap[o].name]])
  /\ UNCHANGED <<disk, reg, heap, commits, nested>>

\* ... and the copy is changed, if there are such rows, and put in place, ...
Finish ==
  /\ stack # <<>>
  /\ \E w \in {Written(Last(stack).copy, Last(stack).id), Last(stack).copy} : Install(w)
  /\ stack' = Front(stack)
  /\ UNCHANGED nested

\* ... or the call fails.
Abort ==
  /\ stack # <<>>
  /\ stack' = Front(stack)
  /\ UNCHANGED <<disk, reg, heap, commits, nested>>

Next == \/ \E n \in Names : CreateTable(n) \/ DropTable(n)
        \/ \E o \in DOMAIN heap : Insert(o) \/ Begin(o)
        \/ Finish \/ Abort

Spec == Init /\ [][Next]_vars

-----------------------------------------------------------------------------
(* What must hold *)

TypeOK == /\ disk \in Seq(Def)
          /\ DOMAIN reg \subseteq Names /\ \A n \in DOMAIN reg : reg[n] \in DOMAIN heap
          /\ DOMAIN heap \subseteq Objects /\ \A o \in DOMAIN heap : heap[o] \in Handle
          /\ Len(stack) <= MaxDepth
          /\ commits \in 0..MaxCommits /\ nested \in BOOLEAN

\* db.tables and the bytes say the same, after every commit and in whatever order nested calls
\* end: a handle from db.Table is up to date.
HandlesCurrent == /\ DOMAIN reg = NamesOf(disk)
                  /\ \A n \in DOMAIN reg : heap[reg[n]] = Fill(Clone, n)

\* The catalog has one row for a name, although CreateTable looks for it in db.tables and
\* not in the catalog.
NamesUnique == \A i, j \in LiveIds(disk) : disk[i].name = disk[j].name => i = j

\* "In-place update existing table pointers" (replaceState): a handle that a caller keeps is
\* never made the handle of another table name.
HandleKeepsName == [][\A o \in DOMAIN heap : heap'[o].name = heap[o].name]_vars

\* The tables by name.
View == [n \in NamesOf(disk) |-> disk[Loaded(disk)[n]].rows]
Tables == INSTANCE Catalog WITH tables <- View

\* As long as predicates only look at rows, calls take effect one after the other, all or
\* nothing, each on what the one before left.
Serial == [][nested \/ Tables!Next]_View

\* "runs fn within an isolated copy-on-write transaction and commits atomically"
\* (withWriteTransaction), whatever the predicate does.
Isolated == Tables!Spec
=============================================================================
