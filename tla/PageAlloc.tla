----------------------------- MODULE PageAlloc -----------------------------
(***************************************************************************)
(* Who owns which page of the file (table.go, database.go).                *)
(*                                                                         *)
(* One bitmap in memory says which pages are taken; it is not saved, and   *)
(* is made anew when a file is opened.  What is saved is the other half:   *)
(* each table's definition page, the roots of its indexes, and a map of    *)
(* its data pages that lies in a row of a "carrier" page shared with other *)
(* tables.  Long-value pages are in no map at all.  Nothing compares the   *)
(* two halves; that they agree is the subject here.                        *)
(*                                                                         *)
(* Each action is a whole write transaction: one that fails changes        *)
(* nothing, and is no step.                                                *)
(***************************************************************************)
EXTENDS Naturals, FiniteSets

CONSTANTS Names,      \* table names
          Indexed,    \* those of tables with an index (and a root page for it)
          NoTable,
          Initial,    \* pages of a new file (128 in the code)
          Extension,  \* pages it grows by (64)
          MapLimit,   \* pages an inline usage map can name (512)
          PairsOnOne, \* tables whose maps page 1 has room for, the catalog's included
          PairsElse,  \* ... and any other carrier page
          RowsPerPage,\* rows of a catalog data page
          MaxPages,   \* bound: pages of the file
          MaxCatalog  \* bound: rows of the catalog

ASSUME SizesAssumption ==
  /\ Initial \in Nat /\ Initial > 3 /\ Initial <= MaxPages
  /\ Extension \in Nat \ {0}
  /\ MapLimit \in Nat /\ MapLimit > 3
  /\ PairsOnOne \in Nat \ {0} /\ PairsElse \in Nat \ {0} /\ RowsPerPage \in Nat \ {0}
  /\ MaxPages \in Nat /\ MaxCatalog \in Nat
  /\ NoTable \notin [def : Nat, roots : SUBSET Nat, carrier : Nat, pair : Nat]

VARIABLES size,     \* pages of the file
          used,     \* the bitmap of taken pages
          tables,   \* the tables of the catalog: definition, roots, carrier and map rows
          pairs,    \* how many pairs of map rows a page has; 0 if it is no carrier
          owned,    \* the pages that pair i of a carrier page names
          lval,     \* long-value pages; tables share them
          records,  \* rows of the catalog, deleted ones included
          orphans   \* pages that belonged to a dropped table, long values excepted

vars == <<size, used, tables, pairs, owned, lval, records, orphans>>

Nums == 0..MaxPages
Table == [def : Nums, roots : SUBSET Nums, carrier : Nums, pair : Nat]
Live == {n \in Names : tables[n] # NoTable}
Catalog == <<1, 1>>     \* the catalog's own map: the first pair on page 1

-----------------------------------------------------------------------------
(* Taking pages: a file is a bitmap and a size *)

File == [used |-> used, size |-> size]

\* The pages with a clear bit; the scan begins at page 3.
Free(f) == {p \in 3..(f.size - 1) : p \notin f.used}

\* allocatePage: the lowest free page, or else the first page of an extension.
Takable(f) == IF Free(f) # {} THEN {p \in Free(f) : \A q \in Free(f) : p <= q} ELSE {f.size}

\* Mutants of After: the bit is not set; the extended file is not installed.
AfterUngrown(f, p) == [used |-> f.used \cup {p}, size |-> f.size]
AfterUnmarked(f, p) == [used |-> f.used, size |-> IF p < f.size THEN f.size ELSE f.size + Extension]
After(f, p) == [used |-> f.used \cup {p},
                size |-> IF p < f.size THEN f.size ELSE f.size + Extension]

Taken(f) == {[pages |-> {p}, file |-> After(f, p)] : p \in Takable(f)}
NoneTaken(f) == {[pages |-> {}, file |-> f]}

-----------------------------------------------------------------------------
(* Usage maps *)

\* Mutant of Room: one pair more than a page holds.
RoomLate(p) == IF p = 1 THEN pairs[1] <= PairsOnOne ELSE pairs[p] \in 1..PairsElse
Room(p) == IF p = 1 THEN pairs[1] < PairsOnOne ELSE pairs[p] \in 1..(PairsElse - 1)

\* allocateUsageMapRows: page 1, or else the carrier page of any table, or else a new page.
Carriers(f) ==
  IF Room(1) THEN {[page |-> 1, file |-> f]}
  ELSE LET others == {tables[n].carrier : n \in Live} \ {1}
       IN IF \E p \in others : Room(p)
          THEN {[page |-> p, file |-> f] : p \in {q \in others : Room(q)}}
          ELSE {[page |-> p, file |-> After(f, p)] : p \in Takable(f)}

\* Mutant of Mappable: the limit is off by one.
MappableLate(p) == p <= MapLimit

\* markTableDataPage refuses a page the map cannot name.
Mappable(p) == p < MapLimit

-----------------------------------------------------------------------------

\* A new file: header, carrier of the catalog's map, catalog definition, and the catalog's
\* first data page with its first two rows.
Init == /\ size = Initial
        /\ used = {0, 1, 2, 3}
        /\ tables = [n \in Names |-> NoTable]
        /\ pairs = [p \in Nums |-> IF p = 1 THEN 1 ELSE 0]
        /\ owned = [m \in {Catalog} |-> {3}]
        /\ lval = {}
        /\ records = 2
        /\ orphans = {}

Becomes(f) == /\ f.size <= MaxPages
              /\ used' = f.used /\ size' = f.size

\* The pages a new table takes: root of its index, and a catalog page if there is no room
\* for the table's row on the last one.
RootPages(n, f) == IF n \in Indexed THEN Taken(f) ELSE NoneTaken(f)
CatalogPages(f) == IF records % RowsPerPage = 0 THEN Taken(f) ELSE NoneTaken(f)

\* The new table, with its definition page, carrier and index root, goes into the catalog.
EnterTable(n, d, c, r, s) ==
  LET pair == pairs[c.page] + 1
      new == <<c.page, pair>>
  IN /\ Becomes(s.file)
     /\ \A p \in s.pages : Mappable(p)
     /\ tables' = [tables EXCEPT ![n] = [def |-> CHOOSE p \in d.pages : TRUE, roots |-> r.pages,
                                         carrier |-> c.page, pair |-> pair]]
     /\ pairs' = [pairs EXCEPT ![c.page] = pair]
     /\ owned' = [m \in DOMAIN owned \cup {new} |->
                    IF m = new THEN {}
                    ELSE IF m = Catalog THEN owned[m] \cup s.pages ELSE owned[m]]

\* createTableInternal.
CreateTable(n) ==
  /\ n \notin Live
  /\ records < MaxCatalog
  /\ \E d \in Taken(File) : \E c \in Carriers(d.file) :
     \E r \in RootPages(n, c.file) : \E s \in CatalogPages(r.file) : EnterTable(n, d, c, r, s)
  /\ records' = records + 1
  /\ UNCHANGED <<lval, orphans>>

Map(n) == <<tables[n].carrier, tables[n].pair>>

\* Mutant of Marked: the map row is made anew.
MarkedAnew(n, ps) == [owned EXCEPT ![Map(n)] = ps]
Marked(n, ps) == [owned EXCEPT ![Map(n)] = @ \cup ps]

\* findOrAllocateDataPage, when no page of the table has room: the page is taken and marked in
\* the table's map, or the whole call fails.
AddDataPage(n) ==
  /\ n \in Live
  /\ \E t \in Taken(File) :
       /\ \A p \in t.pages : Mappable(p)
       /\ Becomes(t.file)
       /\ owned' = Marked(n, t.pages)
       /\ UNCHANGED <<tables, pairs, lval, records, orphans>>

\* allocateLVALSlot, when no long-value page has room.
AddLongPage ==
  /\ Live # {}
  /\ \E t \in Taken(File) :
       /\ Becomes(t.file)
       /\ lval' = lval \cup t.pages
       /\ UNCHANGED <<tables, pairs, owned, records, orphans>>

\* Mutant of FreeLongPage: the bit is cleared, the page itself is not zeroed.
FreeLongPageKept(p) == /\ Live # {} /\ p \in lval
                       /\ used' = used \ {p}
                       /\ UNCHANGED <<size, tables, pairs, owned, lval, records, orphans>>

\* freeLVALSlot, for the last chunk of a page: the page is zeroed and its bit cleared.
FreeLongPage(p) == /\ Live # {} /\ p \in lval
                   /\ lval' = lval \ {p}
                   /\ used' = used \ {p}
                   /\ UNCHANGED <<size, tables, pairs, owned, records, orphans>>

\* What a table has for itself: definition, index roots and data pages.
OwnPages(n) == {tables[n].def} \cup tables[n].roots \cup owned[Map(n)]

\* Mutant of DropTable: the map rows of the dropped table are given back.
DropTableReusing(n) ==
  /\ n \in Live
  /\ tables' = [tables EXCEPT ![n] = NoTable]
  /\ pairs' = [pairs EXCEPT ![tables[n].carrier] = @ - 1]
  /\ orphans' = orphans \cup OwnPages(n)
  /\ UNCHANGED <<size, used, owned, lval, records>>

\* DropTable: the long-value pages that held nothing but values of the table are freed; the
\* catalog row is deleted in its place, and the pages "remain as orphan pages for safety".
DropTable(n) ==
  /\ n \in Live
  /\ \E freed \in SUBSET lval : lval' = lval \ freed /\ used' = used \ freed
  /\ orphans' = orphans \cup OwnPages(n)
  /\ tables' = [tables EXCEPT ![n] = NoTable]
  /\ UNCHANGED <<size, pairs, owned, records>>

\* Save, then Open: the bitmap is not in the file; every page there is counts as taken
\* (initUsageMapFromLoaded).
Reopen == /\ used' = 0..(size - 1)
          /\ UNCHANGED <<size, tables, pairs, owned, lval, records, orphans>>

Next == \/ \E n \in Names : CreateTable(n) \/ AddDataPage(n) \/ DropTable(n)
        \/ AddLongPage
        \/ \E p \in Nums : FreeLongPage(p)
        \/ Reopen

Spec == Init /\ [][Next]_vars

-----------------------------------------------------------------------------
(* What must hold *)

TypeOK == /\ size \in Nat
          /\ used \subseteq 0..(size - 1)
          /\ tables \in [Names -> Table \cup {NoTable}]
          /\ pairs \in [Nums -> Nat]
          /\ DOMAIN owned \subseteq Nums \X Nat
          /\ \A m \in DOMAIN owned : owned[m] \subseteq 3..(size - 1)
          /\ lval \subseteq 3..(size - 1)
          /\ records \in Nat /\ orphans \subseteq 3..(size - 1)

System == {0, 1, 2}
CarrierPages == {p \in Nums : pairs[p] > 0}
Common == System \cup CarrierPages \cup owned[Catalog] \cup lval \cup orphans

\* No page has two owners: not two tables, not a table and the catalog, the long values or the
\* carriers; the pages of a dropped table have none.  Whatever is dropped, freed and taken
\* again, nothing overwrites another's page (allocatePage, freePage, DropTable).
PagesUnshared ==
  /\ \A n, m \in Live : n # m => OwnPages(n) \cap OwnPages(m) = {}
  /\ \A n \in Live : /\ OwnPages(n) \cap Common = {}
                     /\ tables[n].def \notin tables[n].roots \cup owned[Map(n)]
                     /\ tables[n].roots \cap owned[Map(n)] = {}
  /\ lval \cap (System \cup CarrierPages \cup owned[Catalog] \cup orphans) = {}
  /\ owned[Catalog] \cap (System \cup CarrierPages \cup orphans) = {}
  /\ orphans \cap (System \cup CarrierPages) = {}

\* The bitmap has the bit of every page in use set, and of every orphan: allocatePage hands out
\* neither, in the run that made the file and in one that opened it.
InUseMarked == Common \cup UNION {OwnPages(n) : n \in Live} \subseteq used

\* No two tables keep their maps in the same rows, and carriers hold no more than fit
\* (allocateUsageMapRows).
MapsUnshared == /\ \A n, m \in Live : n # m => Map(n) # Map(m)
                /\ \A n \in Live : Map(n) # Catalog
                /\ \A p \in Nums : pairs[p] <= IF p = 1 THEN PairsOnOne ELSE PairsElse

\* "Maximum addressable data page: 511" (README): every data page has a bit in its table's map,
\* so that it is found again when the file is opened (markTableDataPage).
DataPagesMapped == \A m \in DOMAIN owned : \A p \in owned[m] : p < MapLimit

\* A table keeps the pages it has until it is dropped: definition, roots and map never move,
\* and data pages are only ever added (findOrAllocateDataPage, Reopen).
PagesKept ==
  [][\A n \in Live : tables'[n] # NoTable =>
       /\ tables'[n] = tables[n]
       /\ owned[Map(n)] \subseteq owned'[Map(n)]]_vars
=============================================================================
