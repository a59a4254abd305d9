-------------------------- MODULE PageAllocProofs --------------------------
(***************************************************************************)
(* What holds of PageAlloc for every number of tables and pages.           *)
(***************************************************************************)
EXTENDS PageAlloc, TLAPS

-----------------------------------------------------------------------------
(* The inductive invariant *)

\* Map rows are numbered from 1 on each carrier page, and each table has its own.
MapRowsOK == /\ DOMAIN owned = UNION {{p} \X (1..pairs[p]) : p \in Nums}
             /\ Catalog \in DOMAIN owned
             /\ \A n \in Live : Map(n) \in DOMAIN owned

IInv == /\ TypeOK
        /\ size > 3 /\ size <= MaxPages
        /\ MapRowsOK
        /\ PagesUnshared /\ InUseMarked /\ MapsUnshared /\ DataPagesMapped

-----------------------------------------------------------------------------
(* Taking pages *)

FileOK(f) == f.size \in Nat /\ f.size > 3 /\ f.used \subseteq 0..(f.size - 1)

\* The pages ps are new in g, and all that is new.
Takes(f, ps, g) == /\ FileOK(g) /\ f.size <= g.size
                   /\ ps \subseteq 3..(g.size - 1)
                   /\ ps \cap f.used = {}
                   /\ g.used = f.used \cup ps

LEMMA TakableFacts ==
  ASSUME NEW f, FileOK(f), NEW p \in Takable(f)
  PROVE  Takes(f, {p}, After(f, p))
  <1>1. CASE Free(f) # {}
    <2>1. p \in 3..(f.size - 1) /\ p \notin f.used
      BY <1>1 DEF Takable, Free
    <2> QED BY <2>1, SizesAssumption DEF Takes, FileOK, After
  <1>2. CASE Free(f) = {}
    <2>1. p = f.size
      BY <1>2 DEF Takable
    <2> QED BY <2>1, SizesAssumption DEF Takes, FileOK, After
  <1> QED BY <1>1, <1>2

LEMMA TakenFacts ==
  ASSUME NEW f, FileOK(f), NEW t \in Taken(f)
  PROVE  /\ Takes(f, t.pages, t.file)
         /\ \E p : t.pages = {p}
  BY TakableFacts DEF Taken

LEMMA MaybeTaken ==
  ASSUME NEW f, FileOK(f), NEW t \in Taken(f) \cup NoneTaken(f)
  PROVE  Takes(f, t.pages, t.file)
  <1>1. CASE t \in Taken(f) BY <1>1, TakenFacts
  <1>2. CASE t \in NoneTaken(f) BY <1>2 DEF NoneTaken, Takes, FileOK
  <1> QED BY <1>1, <1>2

LEMMA MapRow ==
  ASSUME MapRowsOK, NEW p, NEW i
  PROVE  <<p, i>> \in DOMAIN owned <=> p \in Nums /\ i \in 1..pairs[p]
  BY DEF MapRowsOK

LEMMA CarrierFacts ==
  ASSUME IInv, NEW f, FileOK(f), used \subseteq f.used, NEW c \in Carriers(f)
  PROVE  /\ c.page \in Nat
         /\ \/ c.page \in CarrierPages /\ Room(c.page) /\ c.file = f
            \/ Takes(f, {c.page}, c.file)
  <1>1. CASE Room(1)
    <2>1. 1 \in Nums /\ 1 \in 1..pairs[1]
      BY MapRow DEF IInv, MapRowsOK, Catalog
    <2>2. pairs[1] \in Nat
      BY <2>1 DEF IInv, TypeOK
    <2> QED BY <1>1, <2>1, <2>2 DEF Carriers, CarrierPages, Nums
  <1>2. CASE ~ Room(1)
    <2> DEFINE others == {tables[n].carrier : n \in Live} \ {1}
    <2>1. CASE \E p \in others : Room(p)
      <3>1. PICK n \in Live : c.page = tables[n].carrier /\ Room(c.page) /\ c.file = f
        BY <1>2, <2>1 DEF Carriers
      <3>2. Map(n) \in DOMAIN owned
        BY DEF IInv, MapRowsOK
      <3>3. c.page \in Nums /\ pairs[c.page] > 0
        BY <3>1, <3>2, MapRow DEF IInv, TypeOK, MapRowsOK, Map
      <3> QED BY <3>1, <3>3 DEF CarrierPages, Nums
    <2>2. CASE ~ \E p \in others : Room(p)
      <3>1. PICK p \in Takable(f) : c = [page |-> p, file |-> After(f, p)]
        BY <1>2, <2>2 DEF Carriers
      <3> QED BY <3>1, TakableFacts DEF Takes, FileOK
    <2> QED BY <2>1, <2>2
  <1> QED BY <1>1, <1>2

LEMMA InitInv == Init => IInv
  <1> SUFFICES ASSUME Init PROVE IInv
    OBVIOUS
  <1> USE SizesAssumption DEF Init, Nums, Catalog
  <1>1. Live = {}
    BY DEF Live
  <1>2. CarrierPages = {1} /\ 1 \in Nums
    BY DEF CarrierPages
  <1>3. TypeOK
    BY DEF TypeOK
  <1>4. DOMAIN owned = UNION {{p} \X (1..pairs[p]) : p \in Nums}
    <2>1. \A p \in Nums : \A i : i \in 1..pairs[p] <=> p = 1 /\ i = 1
      OBVIOUS
    <2>2. DOMAIN owned = {<<1, 1>>}
      OBVIOUS
    <2> QED BY <1>2, <2>1, <2>2
  <1>5. MapRowsOK
    BY <1>1, <1>4 DEF MapRowsOK
  <1>6. PagesUnshared /\ InUseMarked
    BY <1>1, <1>2 DEF PagesUnshared, InUseMarked, Common, System
  <1>7. MapsUnshared /\ DataPagesMapped
    BY <1>1 DEF MapsUnshared, DataPagesMapped
  <1> QED BY <1>3, <1>5, <1>6, <1>7 DEF IInv

-----------------------------------------------------------------------------
(* Steps that leave the tables alone *)

LEMMA FileNow == IInv => FileOK(File) /\ File.used = used /\ File.size = size
  BY DEF IInv, TypeOK, FileOK, File

LEMMA OwnNow ==
  ASSUME IInv, NEW n \in Live
  PROVE  /\ tables[n] \in Table
         /\ Map(n) \in DOMAIN owned
         /\ OwnPages(n) \subseteq used
  BY DEF IInv, TypeOK, Live, MapRowsOK, InUseMarked

LEMMA Wider ==
  ASSUME NEW a \in Nat, NEW b \in Nat, a <= b
  PROVE  3..(a - 1) \subseteq 3..(b - 1)
  OBVIOUS

LEMMA Within ==
  ASSUME NEW a \in Nat, NEW b \in Nat, a <= b
  PROVE  3..(a - 1) \subseteq 0..b
  OBVIOUS

LEMMA Grown ==
  ASSUME IInv, size' \in Nat, size <= size'
  PROVE  3..(size - 1) \subseteq 3..(size' - 1)
  <1>1. size \in Nat
    BY DEF IInv, TypeOK
  <1> QED BY <1>1, Wider

LEMMA AddDataPageInv == ASSUME IInv, NEW n \in Names, AddDataPage(n) PROVE IInv'
  <1>1. PICK t \in Taken(File) : /\ \A p \in t.pages : Mappable(p)
                                 /\ Becomes(t.file)
                                 /\ owned' = Marked(n, t.pages)
    BY DEF AddDataPage
  <1>2. UNCHANGED <<tables, pairs, lval, records, orphans>> /\ n \in Live
    BY DEF AddDataPage
  <1>3. PICK q : t.pages = {q}
    BY FileNow, TakenFacts
  <1>4. /\ size' \in Nat /\ size' > 3 /\ size <= size' /\ size' <= MaxPages
        /\ used' = used \cup {q} /\ used' \subseteq 0..(size' - 1)
        /\ q \in 3..(size' - 1) /\ q \notin used
    BY <1>1, <1>3, FileNow, TakenFacts DEF Takes, FileOK, Becomes
  <1>5. /\ DOMAIN owned' = DOMAIN owned
        /\ \A m \in DOMAIN owned : owned'[m] = IF m = Map(n) THEN owned[m] \cup {q} ELSE owned[m]
    BY <1>1, <1>3 DEF Marked
  <1>6. Live' = Live /\ CarrierPages' = CarrierPages
    BY <1>2 DEF Live, CarrierPages
  <1>7. TypeOK'
    <2>1. \A m \in DOMAIN owned' : owned'[m] \subseteq 3..(size' - 1)
      BY <1>4, <1>5, Grown DEF IInv, TypeOK
    <2>2. tables' \in [Names -> Table \cup {NoTable}] /\ pairs' \in [Nums -> Nat]
      BY <1>2 DEF IInv, TypeOK
    <2>3. lval' \subseteq 3..(size' - 1) /\ orphans' \subseteq 3..(size' - 1)
      BY <1>2, <1>4, Grown DEF IInv, TypeOK
    <2> QED BY <1>2, <1>4, <1>5, <2>1, <2>2, <2>3 DEF IInv, TypeOK
  <1>8. \A m \in Live : /\ Map(m)' = Map(m)
                        /\ OwnPages(m)' = IF m = n THEN OwnPages(m) \cup {q} ELSE OwnPages(m)
    BY <1>2, <1>5, OwnNow DEF OwnPages, Map, IInv, MapsUnshared
  <1>9. owned'[Catalog] = owned[Catalog] /\ Common' = Common
    BY <1>2, <1>5, <1>6 DEF IInv, MapsUnshared, MapRowsOK, Common, System
  <1>10. MapRowsOK' /\ MapsUnshared'
    BY <1>2, <1>5, <1>6, <1>8 DEF IInv, MapRowsOK, MapsUnshared
  <1>11. DataPagesMapped'
    BY <1>1, <1>3, <1>5 DEF IInv, DataPagesMapped, Mappable
  <1>12. InUseMarked'
    BY <1>4, <1>6, <1>8, <1>9 DEF IInv, InUseMarked
  <1>13. PagesUnshared'
    <2>1. q \notin Common /\ \A m \in Live : q \notin OwnPages(m)
      BY <1>4 DEF IInv, InUseMarked
    <2>2. \A m \in Live : /\ owned'[Map(m)'] = IF m = n THEN owned[Map(m)] \cup {q} ELSE owned[Map(m)]
                          /\ tables'[m] = tables[m]
      BY <1>2, <1>5, <1>8, OwnNow DEF IInv, MapsUnshared
    <2>3. \A m \in Live : q # tables[m].def /\ q \notin tables[m].roots
      BY <2>1 DEF OwnPages
    <2>4. q \notin lval \cup orphans \cup owned[Catalog] \cup System \cup CarrierPages
      BY <2>1 DEF Common
    <2>5. \A m, o \in Live : m # o => OwnPages(m)' \cap OwnPages(o)' = {}
      BY <1>8, <2>1 DEF IInv, PagesUnshared
    <2>6. \A m \in Live : OwnPages(m)' \cap Common' = {}
      BY <1>8, <1>9, <2>1 DEF IInv, PagesUnshared
    <2>7. \A m \in Live : /\ tables'[m].def \notin tables'[m].roots \cup owned'[Map(m)']
                          /\ tables'[m].roots \cap owned'[Map(m)'] = {}
      BY <2>2, <2>3 DEF IInv, PagesUnshared
    <2> QED BY <1>2, <1>6, <1>9, <2>5, <2>6, <2>7 DEF IInv, PagesUnshared, System
  <1> QED BY <1>4, <1>7, <1>10, <1>11, <1>12, <1>13 DEF IInv

LEMMA AddLongPageInv == ASSUME IInv, AddLongPage PROVE IInv'
  <1>1. PICK t \in Taken(File) : Becomes(t.file) /\ lval' = lval \cup t.pages
    BY DEF AddLongPage
  <1>2. UNCHANGED <<tables, pairs, owned, records, orphans>>
    BY DEF AddLongPage
  <1>3. /\ size' \in Nat /\ size' > 3 /\ size <= size' /\ size' <= MaxPages
        /\ used' = used \cup t.pages /\ used' \subseteq 0..(size' - 1)
        /\ t.pages \subseteq 3..(size' - 1) /\ t.pages \cap used = {}
    BY <1>1, FileNow, TakenFacts DEF Takes, FileOK, Becomes
  <1>4. /\ Live' = Live /\ CarrierPages' = CarrierPages
        /\ \A m \in Live : Map(m)' = Map(m) /\ OwnPages(m)' = OwnPages(m)
    BY <1>2 DEF Live, CarrierPages, Map, OwnPages
  <1>5. TypeOK'
    <2>1. tables' \in [Names -> Table \cup {NoTable}] /\ pairs' \in [Nums -> Nat]
      BY <1>2 DEF IInv, TypeOK
    <2>2. /\ lval' \subseteq 3..(size' - 1) /\ orphans' \subseteq 3..(size' - 1)
          /\ \A m \in DOMAIN owned' : owned'[m] \subseteq 3..(size' - 1)
      BY <1>1, <1>2, <1>3, Grown DEF IInv, TypeOK
    <2> QED BY <1>2, <1>3, <2>1, <2>2 DEF IInv, TypeOK
  <1>6. MapRowsOK' /\ MapsUnshared' /\ DataPagesMapped'
    BY <1>2, <1>4 DEF IInv, MapRowsOK, MapsUnshared, DataPagesMapped
  <1>7. Common' = Common \cup t.pages
    BY <1>1, <1>2, <1>4 DEF Common, System
  <1>8. InUseMarked'
    BY <1>3, <1>4, <1>7 DEF IInv, InUseMarked
  <1>9. PagesUnshared'
    <2>1. t.pages \cap Common = {} /\ \A m \in Live : t.pages \cap OwnPages(m) = {}
      BY <1>3 DEF IInv, InUseMarked
    <2>2. t.pages \cap (System \cup CarrierPages \cup owned[Catalog] \cup orphans) = {}
      BY <2>1 DEF Common
    <2> QED BY <1>1, <1>2, <1>4, <1>7, <2>1, <2>2 DEF IInv, PagesUnshared, System
  <1> QED BY <1>3, <1>5, <1>6, <1>8, <1>9 DEF IInv

\* Long-value pages go back to the bitmap, and they are nobody else's.
LEMMA FreedPages ==
  ASSUME IInv, NEW ps \in SUBSET lval
  PROVE  /\ \A n \in Live : OwnPages(n) \cap ps = {}
         /\ (System \cup CarrierPages \cup owned[Catalog] \cup orphans) \cap ps = {}
         /\ System \cup CarrierPages \cup owned[Catalog] \cup orphans \cup (lval \ ps) \subseteq used \ ps
  BY DEF IInv, PagesUnshared, InUseMarked, Common

LEMMA FreeLongPageInv == ASSUME IInv, NEW p \in Nums, FreeLongPage(p) PROVE IInv'
  <1>1. /\ lval' = lval \ {p} /\ used' = used \ {p} /\ {p} \subseteq lval
        /\ UNCHANGED <<size, tables, pairs, owned, records, orphans>>
    BY DEF FreeLongPage
  <1>2. /\ Live' = Live /\ CarrierPages' = CarrierPages
        /\ \A m \in Live : Map(m)' = Map(m) /\ OwnPages(m)' = OwnPages(m)
    BY <1>1 DEF Live, CarrierPages, Map, OwnPages
  <1>3. TypeOK'
    BY <1>1 DEF IInv, TypeOK
  <1>4. MapRowsOK' /\ MapsUnshared' /\ DataPagesMapped'
    BY <1>1, <1>2 DEF IInv, MapRowsOK, MapsUnshared, DataPagesMapped
  <1>5. Common' \subseteq Common /\ Common' \subseteq used'
    BY <1>1, <1>2, FreedPages DEF Common, System
  <1>6. InUseMarked'
    BY <1>1, <1>2, <1>5, OwnNow, FreedPages DEF InUseMarked
  <1>7. PagesUnshared'
    BY <1>1, <1>2, <1>5 DEF IInv, PagesUnshared, System
  <1> QED BY <1>1, <1>3, <1>4, <1>6, <1>7 DEF IInv

LEMMA DropTableInv == ASSUME IInv, NEW n \in Names, DropTable(n) PROVE IInv'
  <1>1. PICK ps \in SUBSET lval : lval' = lval \ ps /\ used' = used \ ps
    BY DEF DropTable
  <1>2. /\ orphans' = orphans \cup OwnPages(n) /\ n \in Live
        /\ tables' = [tables EXCEPT ![n] = NoTable]
        /\ UNCHANGED <<size, pairs, owned, records>>
    BY DEF DropTable
  <1>3. Live' = Live \ {n} /\ CarrierPages' = CarrierPages
    BY <1>2 DEF Live, CarrierPages, IInv, TypeOK
  <1>4. \A m \in Live' : /\ tables'[m] = tables[m] /\ Map(m)' = Map(m)
                         /\ OwnPages(m)' = OwnPages(m)
    BY <1>2, <1>3 DEF Live, Map, OwnPages, IInv, TypeOK
  <1>5. OwnPages(n) \subseteq 3..(size - 1)
    <2>1. OwnPages(n) \subseteq used /\ OwnPages(n) \cap System = {}
      BY <1>2, OwnNow DEF IInv, PagesUnshared, Common
    <2>2. used \subseteq 0..(size - 1)
      BY DEF IInv, TypeOK
    <2>3. \A p \in 0..(size - 1) : p \in System \/ p \in 3..(size - 1)
      BY DEF IInv, TypeOK, System
    <2> QED BY <2>1, <2>2, <2>3
  <1>6. TypeOK'
    BY <1>1, <1>2, <1>5 DEF IInv, TypeOK
  <1>7. MapRowsOK' /\ MapsUnshared' /\ DataPagesMapped'
    BY <1>2, <1>3, <1>4 DEF IInv, MapRowsOK, MapsUnshared, DataPagesMapped
  <1>8. Common' \subseteq Common \cup OwnPages(n) /\ Common' \subseteq used'
    BY <1>1, <1>2, <1>3, OwnNow, FreedPages DEF Common, System
  <1>9. InUseMarked'
    BY <1>1, <1>3, <1>4, <1>8, OwnNow, FreedPages DEF InUseMarked
  <1>10. PagesUnshared'
    <2>1. \A m \in Live' : OwnPages(m) \cap (Common \cup OwnPages(n)) = {}
      BY <1>2, <1>3 DEF IInv, PagesUnshared
    <2>2. OwnPages(n) \cap (System \cup CarrierPages \cup owned[Catalog] \cup lval) = {}
      BY <1>2 DEF IInv, PagesUnshared, Common
    <2> QED BY <1>1, <1>2, <1>3, <1>4, <1>8, <2>1, <2>2 DEF IInv, PagesUnshared, System
  <1> QED BY <1>2, <1>6, <1>7, <1>9, <1>10 DEF IInv

LEMMA ReopenInv == ASSUME IInv, Reopen PROVE IInv'
  <1>1. used' = 0..(size - 1) /\ UNCHANGED <<size, tables, pairs, owned, lval, records, orphans>>
    BY DEF Reopen
  <1>2. /\ Live' = Live /\ CarrierPages' = CarrierPages /\ Common' = Common
        /\ \A m \in Live : Map(m)' = Map(m) /\ OwnPages(m)' = OwnPages(m)
    BY <1>1 DEF Live, CarrierPages, Map, OwnPages, Common, System
  <1>3. used \subseteq used'
    BY <1>1 DEF IInv, TypeOK
  <1>4. TypeOK' /\ MapRowsOK' /\ MapsUnshared' /\ DataPagesMapped'
    BY <1>1, <1>2 DEF IInv, TypeOK, MapRowsOK, MapsUnshared, DataPagesMapped
  <1>5. InUseMarked' /\ PagesUnshared'
    BY <1>1, <1>2, <1>3 DEF IInv, InUseMarked, PagesUnshared, System
  <1> QED BY <1>1, <1>4, <1>5 DEF IInv

-----------------------------------------------------------------------------
(* A new table *)

\* The pages a new table takes are new, and different; only its carrier may be an old page.
LEMMA NewPages ==
  ASSUME IInv, NEW n \in Names,
         NEW d \in Taken(File), NEW c \in Carriers(d.file), NEW r \in RootPages(n, c.file),
         NEW s \in CatalogPages(r.file)
  PROVE  /\ Takes(File, d.pages, d.file)
         /\ c.page \in Nat /\ c.page < s.file.size
         /\ \/ c.page \in CarrierPages /\ Room(c.page)
            \/ c.page \notin used /\ c.page >= 3
         /\ c.page \notin d.pages \cup r.pages \cup s.pages
         /\ d.pages \cap r.pages = {} /\ d.pages \cap s.pages = {} /\ r.pages \cap s.pages = {}
         /\ (d.pages \cup r.pages \cup s.pages) \cap used = {}
         /\ d.pages \cup r.pages \cup s.pages \subseteq 3..(s.file.size - 1)
         /\ s.file.used = used \cup d.pages \cup {c.page} \cup r.pages \cup s.pages
         /\ FileOK(s.file) /\ size <= s.file.size
  <1>1. Takes(File, d.pages, d.file) /\ FileOK(File) /\ File.used = used /\ File.size = size
    BY FileNow, TakenFacts
  <1>2. FileOK(d.file) /\ d.file.used = used \cup d.pages
    BY <1>1 DEF Takes
  <1>3. CarrierPages \subseteq used
    BY DEF IInv, InUseMarked, Common
  <1>4. /\ c.page \in Nat
        /\ \/ c.page \in CarrierPages /\ Room(c.page) /\ c.file = d.file
           \/ Takes(d.file, {c.page}, c.file)
    BY <1>2, CarrierFacts
  <1>5. /\ FileOK(c.file) /\ d.file.size <= c.file.size
        /\ c.file.used = used \cup d.pages \cup {c.page}
        /\ c.page \notin d.pages
        /\ \/ c.page \in CarrierPages /\ Room(c.page)
           \/ c.page \notin used /\ c.page >= 3
    <2>1. CASE c.page \in CarrierPages /\ Room(c.page) /\ c.file = d.file
      BY <1>1, <1>2, <1>3, <2>1 DEF Takes, FileOK
    <2>2. CASE Takes(d.file, {c.page}, c.file)
      BY <1>2, <2>2 DEF Takes
    <2> QED BY <1>4, <2>1, <2>2
  <1>6. Takes(c.file, r.pages, r.file)
    BY <1>5, MaybeTaken DEF RootPages
  <1>7. FileOK(r.file)
    BY <1>6 DEF Takes
  <1>8. Takes(r.file, s.pages, s.file)
    BY <1>7, MaybeTaken DEF CatalogPages
  <1>9. /\ s.file.used = used \cup d.pages \cup {c.page} \cup r.pages \cup s.pages
        /\ d.pages \cap used = {}
        /\ r.pages \cap (used \cup d.pages \cup {c.page}) = {}
        /\ s.pages \cap (used \cup d.pages \cup {c.page} \cup r.pages) = {}
    BY <1>1, <1>5, <1>6, <1>8 DEF Takes
  <1>10. FileOK(s.file)
    BY <1>8 DEF Takes
  <1>11. size <= d.file.size /\ d.file.size <= s.file.size /\ c.file.size <= s.file.size /\ r.file.size <= s.file.size
    BY <1>1, <1>2, <1>5, <1>6, <1>7, <1>8, <1>10 DEF Takes, FileOK
  <1>12. d.pages \cup r.pages \cup s.pages \subseteq 3..(s.file.size - 1)
    <2>1. /\ d.pages \subseteq 3..(d.file.size - 1)
          /\ r.pages \subseteq 3..(r.file.size - 1)
          /\ s.pages \subseteq 3..(s.file.size - 1)
      BY <1>1, <1>6, <1>8 DEF Takes
    <2>2. /\ d.file.size \in Nat /\ r.file.size \in Nat /\ s.file.size \in Nat
      BY <1>2, <1>7, <1>10 DEF FileOK
    <2>3. /\ 3..(d.file.size - 1) \subseteq 3..(s.file.size - 1)
          /\ 3..(r.file.size - 1) \subseteq 3..(s.file.size - 1)
      BY <1>11, <2>2, Wider
    <2> QED BY <2>1, <2>3
  <1>13. c.page < s.file.size
    BY <1>4, <1>9, <1>10 DEF FileOK
  <1>14. size <= s.file.size
    BY <1>1, <1>2, <1>10, <1>11 DEF FileOK
  <1> QED BY <1>1, <1>4, <1>5, <1>9, <1>10, <1>12, <1>13, <1>14

LEMMA CreateTableInv == ASSUME IInv, NEW n \in Names, CreateTable(n) PROVE IInv'
  <1>1. PICK d, c, r, s :
          /\ d \in Taken(File) /\ c \in Carriers(d.file)
          /\ r \in RootPages(n, c.file) /\ s \in CatalogPages(r.file)
          /\ EnterTable(n, d, c, r, s)
    BY Zenon DEF CreateTable
  <1>2. n \notin Live /\ records' = records + 1 /\ UNCHANGED <<lval, orphans>>
    BY DEF CreateTable
  <1> DEFINE cp == c.page
             new == <<cp, pairs[cp] + 1>>
             fresh == d.pages \cup r.pages \cup s.pages
  <1>3. PICK dp : d.pages = {dp}
    BY <1>1, FileNow, TakenFacts
  <1>4. /\ cp \in Nat /\ cp < size'
        /\ \/ cp \in CarrierPages /\ Room(cp)
           \/ cp \notin used /\ cp >= 3
        /\ cp \notin fresh
        /\ dp \notin r.pages /\ dp \notin s.pages /\ r.pages \cap s.pages = {}
        /\ fresh \cap used = {}
        /\ fresh \subseteq 3..(size' - 1)
        /\ used' = used \cup fresh \cup {cp} /\ used' \subseteq 0..(size' - 1)
        /\ size' \in Nat /\ size' > 3 /\ size <= size' /\ size' <= MaxPages
    <2>1. size' = s.file.size /\ used' = s.file.used /\ size' <= MaxPages
      BY <1>1 DEF EnterTable, Becomes
    <2>2. FileOK(s.file)
      BY <1>1, NewPages
    <2> QED BY <1>1, <1>3, <2>1, <2>2, NewPages DEF FileOK
  <1>5. cp \in Nums /\ pairs[cp] \in Nat /\ fresh \subseteq Nums
    <2>1. size' \in Nat /\ size' <= MaxPages /\ MaxPages \in Nat
      BY <1>4, SizesAssumption
    <2>2. 3..(size' - 1) \subseteq Nums
      BY <2>1, Within DEF Nums
    <2>3. cp \in Nums
      BY <1>4, <2>1 DEF Nums
    <2> QED BY <1>4, <2>2, <2>3 DEF IInv, TypeOK
  <1>6. cp \notin CarrierPages => pairs[cp] = 0
    BY <1>5 DEF CarrierPages
  <1>7. new \notin DOMAIN owned /\ new # Catalog
    <2>1. pairs[cp] + 1 \notin 1..pairs[cp]
      BY <1>5
    <2> QED BY <2>1, MapRow DEF IInv, MapRowsOK
  <1>8. /\ DOMAIN owned' = DOMAIN owned \cup {new}
        /\ owned'[new] = {}
        /\ owned'[Catalog] = owned[Catalog] \cup s.pages
        /\ \A m \in DOMAIN owned : m # Catalog => owned'[m] = owned[m]
    BY <1>1, <1>7 DEF EnterTable, IInv, MapRowsOK
  <1>9. pairs' \in [Nums -> Nat] /\ \A p \in Nums : pairs'[p] = IF p = cp THEN pairs[p] + 1 ELSE pairs[p]
    BY <1>1, <1>5 DEF EnterTable, IInv, TypeOK
  <1>10. CarrierPages' = CarrierPages \cup {cp}
    <2>1. \A p \in Nums : pairs'[p] > 0 <=> p = cp \/ pairs[p] > 0
      BY <1>5, <1>9
    <2> QED BY <1>5, <2>1 DEF CarrierPages
  <1>11. /\ tables' \in [Names -> Table \cup {NoTable}]
         /\ tables'[n] = [def |-> dp, roots |-> r.pages, carrier |-> cp, pair |-> pairs[cp] + 1]
         /\ \A m \in Names \ {n} : tables'[m] = tables[m]
    <2> DEFINE t == [def |-> dp, roots |-> r.pages, carrier |-> cp, pair |-> pairs[cp] + 1]
    <2>1. t = [def |-> CHOOSE p \in d.pages : TRUE, roots |-> r.pages, carrier |-> cp,
               pair |-> pairs[cp] + 1]
      BY <1>3
    <2>2. t \in Table
      BY <1>3, <1>5 DEF Table
    <2> HIDE DEF t
    <2>3. tables' = [tables EXCEPT ![n] = t]
      BY <1>1, <2>1 DEF EnterTable
    <2>4. tables'[n] = t /\ tables' \in [Names -> Table \cup {NoTable}]
      BY <2>2, <2>3 DEF IInv, TypeOK
    <2>5. \A m \in Names \ {n} : tables'[m] = tables[m]
      BY <2>3 DEF IInv, TypeOK
    <2> QED BY <2>4, <2>5 DEF t
  <1>12. tables'[n] # NoTable
    <2>1. tables'[n] \in [def : Nat, roots : SUBSET Nat, carrier : Nat, pair : Nat]
      BY <1>3, <1>5, <1>11 DEF Nums
    <2> QED BY <2>1, SizesAssumption
  <1>13. Live' = Live \cup {n}
    BY <1>11, <1>12 DEF Live
  <1>14. /\ Map(n)' = new
         /\ OwnPages(n)' = {dp} \cup r.pages
         /\ \A m \in Live : Map(m)' = Map(m) /\ OwnPages(m)' = OwnPages(m)
    <2>1. Map(n)' = new
      BY <1>11 DEF Map
    <2>2. OwnPages(n)' = {dp} \cup r.pages
      BY <1>8, <1>11, <2>1 DEF OwnPages
    <2>3. ASSUME NEW m \in Live PROVE Map(m)' = Map(m) /\ OwnPages(m)' = OwnPages(m)
      <3>1. tables'[m] = tables[m]
        BY <1>2, <1>11 DEF Live
      <3>2. Map(m)' = Map(m)
        BY <3>1 DEF Map
      <3>3. owned'[Map(m)] = owned[Map(m)]
        BY <1>8, OwnNow DEF IInv, MapsUnshared
      <3> QED BY <3>1, <3>2, <3>3 DEF OwnPages
    <2> QED BY <2>1, <2>2, <2>3
  <1>15. TypeOK'
    <2>1. \A m \in DOMAIN owned' : owned'[m] \subseteq 3..(size' - 1)
      <3>1. \A m \in DOMAIN owned : owned[m] \subseteq 3..(size' - 1)
        BY <1>4, Grown DEF IInv, TypeOK
      <3> QED BY <1>4, <1>8, <3>1 DEF IInv, MapRowsOK
    <2>2. DOMAIN owned' \subseteq Nums \X Nat
      BY <1>5, <1>8 DEF IInv, TypeOK
    <2>3. lval' \subseteq 3..(size' - 1) /\ orphans' \subseteq 3..(size' - 1)
      BY <1>2, <1>4, Grown DEF IInv, TypeOK
    <2>4. records' \in Nat
      BY <1>2 DEF IInv, TypeOK
    <2> QED BY <1>4, <1>9, <1>11, <2>1, <2>2, <2>3, <2>4 DEF TypeOK
  <1>16. MapRowsOK'
    <2>1. 1..(pairs[cp] + 1) = 1..pairs[cp] \cup {pairs[cp] + 1}
      BY <1>5
    <2>2. ASSUME NEW m
          PROVE  m \in DOMAIN owned' <=> m \in UNION {{p} \X (1..pairs'[p]) : p \in Nums}
      <3>1. m \in UNION {{p} \X (1..pairs'[p]) : p \in Nums}
              <=> m = new \/ m \in UNION {{p} \X (1..pairs[p]) : p \in Nums}
        BY <1>5, <1>9, <2>1
      <3> QED BY <1>8, <3>1 DEF IInv, MapRowsOK
    <2>3. DOMAIN owned' = UNION {{p} \X (1..pairs'[p]) : p \in Nums}
      BY <2>2
    <2> QED BY <1>8, <1>13, <1>14, <2>3, OwnNow DEF MapRowsOK, IInv, Catalog
  <1>17. Common' = Common \cup s.pages \cup {cp}
    BY <1>2, <1>8, <1>10 DEF Common, System
  <1>18. InUseMarked'
    <2>1. Common' \subseteq used'
      BY <1>4, <1>17 DEF IInv, InUseMarked
    <2>2. \A m \in Live' : OwnPages(m)' \subseteq used'
      BY <1>3, <1>4, <1>13, <1>14, OwnNow
    <2> QED BY <2>1, <2>2 DEF InUseMarked
  <1>19. MapsUnshared'
    <2>1. \A m \in Live' : m # n => m \in Live /\ Map(m)' # new /\ Map(m)' # Catalog /\ Map(m)' = Map(m)
      BY <1>7, <1>13, <1>14, OwnNow DEF IInv, MapsUnshared
    <2>2. ASSUME NEW p \in Nums PROVE pairs'[p] <= IF p = 1 THEN PairsOnOne ELSE PairsElse
      <3>1. pairs[p] \in Nat /\ pairs[p] <= IF p = 1 THEN PairsOnOne ELSE PairsElse
        BY DEF IInv, TypeOK, MapsUnshared
      <3>2. CASE p = cp /\ cp \in CarrierPages /\ Room(cp)
        BY <1>9, <3>1, <3>2, SizesAssumption DEF Room
      <3>3. CASE p = cp /\ cp \notin CarrierPages /\ cp >= 3
        BY <1>6, <1>9, <3>3, SizesAssumption
      <3>4. CASE p # cp
        BY <1>9, <3>1, <3>4
      <3> QED BY <1>4, <3>2, <3>3, <3>4 DEF IInv, InUseMarked, Common
    <2>3. Catalog' = Catalog
      BY DEF Catalog
    <2> QED BY <1>7, <1>13, <1>14, <2>1, <2>2, <2>3 DEF MapsUnshared, IInv
  <1>20. DataPagesMapped'
    BY <1>1, <1>8 DEF EnterTable, IInv, DataPagesMapped, Mappable, MapRowsOK
  <1>21. PagesUnshared'
    <2>1. Common \subseteq used /\ \A m \in Live : OwnPages(m) \subseteq used
      BY OwnNow DEF IInv, InUseMarked
    <2>2. cp \notin CarrierPages => cp \notin used
      BY <1>4
    <2>3. \A m \in Live : cp \notin OwnPages(m)
      BY <2>1, <2>2 DEF IInv, PagesUnshared, Common
    <2>4. cp \notin lval /\ cp \notin owned[Catalog] /\ cp \notin orphans
      BY <2>1, <2>2 DEF IInv, PagesUnshared, Common
    <2>5. \A m, o \in Live' : m # o => OwnPages(m)' \cap OwnPages(o)' = {}
      BY <1>3, <1>4, <1>13, <1>14, <2>1 DEF IInv, PagesUnshared
    <2>6. \A m \in Live' : OwnPages(m)' \cap Common' = {}
      <3>1. OwnPages(n)' \cap Common' = {}
        BY <1>3, <1>4, <1>14, <1>17, <2>1
      <3>2. \A m \in Live : OwnPages(m)' \cap Common' = {}
        BY <1>4, <1>14, <1>17, <2>1, <2>3 DEF IInv, PagesUnshared
      <3> QED BY <1>13, <3>1, <3>2
    <2>7. \A m \in Live' : /\ tables'[m].def \notin tables'[m].roots \cup owned'[Map(m)']
                           /\ tables'[m].roots \cap owned'[Map(m)'] = {}
      <3>1. ASSUME NEW m \in Live
            PROVE  /\ tables'[m].def \notin tables'[m].roots \cup owned'[Map(m)']
                   /\ tables'[m].roots \cap owned'[Map(m)'] = {}
        <4>1. tables'[m] = tables[m] /\ Map(m)' = Map(m)
          BY <1>2, <1>11, <1>14 DEF Live
        <4>2. owned'[Map(m)] = owned[Map(m)]
          BY <1>8, OwnNow DEF IInv, MapsUnshared
        <4> QED BY <4>1, <4>2 DEF IInv, PagesUnshared
      <3>2. /\ tables'[n].def \notin tables'[n].roots \cup owned'[Map(n)']
            /\ tables'[n].roots \cap owned'[Map(n)'] = {}
        BY <1>4, <1>8, <1>11, <1>14
      <3> QED BY <1>13, <3>1, <3>2
    <2>8. lval' \cap (System \cup CarrierPages' \cup owned'[Catalog] \cup orphans') = {}
      BY <1>2, <1>4, <1>8, <1>10, <2>1, <2>4 DEF IInv, PagesUnshared, Common
    <2>9. owned'[Catalog] \cap (System \cup CarrierPages' \cup orphans') = {}
      BY <1>2, <1>4, <1>8, <1>10, <2>1, <2>4 DEF IInv, PagesUnshared, Common
    <2>10. orphans' \cap (System \cup CarrierPages') = {}
      BY <1>2, <1>10, <2>4 DEF IInv, PagesUnshared
    <2> QED BY <2>5, <2>6, <2>7, <2>8, <2>9, <2>10 DEF PagesUnshared, System, Catalog
  <1> QED BY <1>4, <1>15, <1>16, <1>18, <1>19, <1>20, <1>21 DEF IInv

-----------------------------------------------------------------------------
(* The theorems *)

LEMMA StepInv == IInv /\ [Next]_vars => IInv'
  <1> SUFFICES ASSUME IInv, [Next]_vars PROVE IInv'
    OBVIOUS
  <1>1. CASE \E n \in Names : CreateTable(n)
    BY <1>1, CreateTableInv
  <1>2. CASE \E n \in Names : AddDataPage(n)
    BY <1>2, AddDataPageInv
  <1>3. CASE \E n \in Names : DropTable(n)
    BY <1>3, DropTableInv
  <1>4. CASE AddLongPage
    BY <1>4, AddLongPageInv
  <1>5. CASE \E p \in Nums : FreeLongPage(p)
    BY <1>5, FreeLongPageInv
  <1>6. CASE Reopen
    BY <1>6, ReopenInv
  <1>7. CASE UNCHANGED vars
    <2> USE <1>7 DEF vars
    <2>1. /\ Live' = Live /\ CarrierPages' = CarrierPages /\ Common' = Common
          /\ \A m \in Live : Map(m)' = Map(m) /\ OwnPages(m)' = OwnPages(m)
      BY DEF Live, CarrierPages, Common, System, Map, OwnPages
    <2>2. TypeOK' /\ MapRowsOK'
      BY <2>1 DEF IInv, TypeOK, MapRowsOK
    <2>3. PagesUnshared' /\ InUseMarked'
      BY <2>1 DEF IInv, PagesUnshared, InUseMarked, System
    <2>4. MapsUnshared' /\ DataPagesMapped'
      BY <2>1 DEF IInv, MapsUnshared, DataPagesMapped
    <2> QED BY <2>2, <2>3, <2>4 DEF IInv
  <1> QED BY <1>1, <1>2, <1>3, <1>4, <1>5, <1>6, <1>7 DEF Next

\* The inductive invariant: map rows are numbered on their carriers, and what PageAlloc's
\* properties say of ownership and the bitmap holds together.
THEOREM Invariance == Spec => []IInv
  <1>1. Init => IInv BY InitInv
  <1>2. IInv /\ [Next]_vars => IInv' BY StepInv
  <1> QED BY <1>1, <1>2, PTL DEF Spec

\* Every state has its type, for any number of tables and pages.
THEOREM TypeCorrect == Spec => []TypeOK
  <1>1. IInv => TypeOK BY DEF IInv
  <1> QED BY <1>1, Invariance, PTL

\* Whatever is created, dropped, freed and reopened, no page has two owners (allocatePage,
\* freePage, DropTable), for any file, extension and carrier size.
THEOREM Unshared == Spec => []PagesUnshared
  <1>1. IInv => PagesUnshared BY DEF IInv
  <1> QED BY <1>1, Invariance, PTL

\* The bitmap, made anew on opening, has every page in use and every orphan marked.
THEOREM BitmapCovers == Spec => []InUseMarked
  <1>1. IInv => InUseMarked BY DEF IInv
  <1> QED BY <1>1, Invariance, PTL

\* No two tables share map rows (allocateUsageMapRows).
THEOREM Mapped == Spec => []MapsUnshared
  <1>1. IInv => MapsUnshared BY DEF IInv
  <1> QED BY <1>1, Invariance, PTL

\* Every data page is within reach of the map of its table (markTableDataPage).
THEOREM Addressable == Spec => []DataPagesMapped
  <1>1. IInv => DataPagesMapped BY DEF IInv
  <1> QED BY <1>1, Invariance, PTL

\* A table keeps its definition, roots, map rows and data pages until it is dropped
\* (findOrAllocateDataPage, createTableInternal).
THEOREM Permanence == Spec => PagesKept
  <1> DEFINE Keeps == \A n \in Live : tables'[n] # NoTable =>
                        /\ tables'[n] = tables[n]
                        /\ owned[Map(n)] \subseteq owned'[Map(n)]
  <1>1. IInv /\ [Next]_vars => [Keeps]_vars
    <2> SUFFICES ASSUME IInv, Next, NEW n \in Live, tables'[n] # NoTable
                 PROVE  tables'[n] = tables[n] /\ owned[Map(n)] \subseteq owned'[Map(n)]
      BY DEF vars
    <2>1. Map(n) \in DOMAIN owned /\ n \in Names /\ tables \in [Names -> Table \cup {NoTable}]
      BY OwnNow DEF Live, IInv, TypeOK
    <2>2. ASSUME NEW m \in Names, CreateTable(m)
          PROVE  tables'[n] = tables[n] /\ owned[Map(n)] \subseteq owned'[Map(n)]
      <3>1. PICK d, c, r, s :
              /\ d \in Taken(File) /\ c \in Carriers(d.file)
              /\ r \in RootPages(m, c.file) /\ s \in CatalogPages(r.file)
              /\ EnterTable(m, d, c, r, s)
        BY <2>2, Zenon DEF CreateTable
      <3>2. c.page \in Nat /\ pairs[c.page] + 1 \notin 1..pairs[c.page]
        <4>1. /\ c.page \in Nat /\ c.page < s.file.size
          BY <3>1, NewPages
        <4>2. s.file.size \in Nat /\ s.file.size <= MaxPages
          BY <3>1, NewPages DEF EnterTable, Becomes, FileOK
        <4>3. c.page \in Nums
          BY <4>1, <4>2, SizesAssumption DEF Nums
        <4> QED BY <4>1, <4>3 DEF IInv, TypeOK
      <3>3. Map(n) # <<c.page, pairs[c.page] + 1>>
        BY <2>1, <3>2, MapRow DEF IInv
      <3>4. m # n
        BY <2>2 DEF CreateTable
      <3> QED BY <2>1, <3>1, <3>3, <3>4 DEF EnterTable
    <2>3. ASSUME NEW m \in Names, AddDataPage(m)
          PROVE  tables'[n] = tables[n] /\ owned[Map(n)] \subseteq owned'[Map(n)]
      BY <2>1, <2>3 DEF AddDataPage, Marked
    <2>4. ASSUME NEW m \in Names, DropTable(m)
          PROVE  tables'[n] = tables[n] /\ owned[Map(n)] \subseteq owned'[Map(n)]
      BY <2>1, <2>4 DEF DropTable
    <2> QED BY <2>2, <2>3, <2>4 DEF Next, AddLongPage, FreeLongPage, Reopen
  <1> QED BY <1>1, Invariance, PTL DEF Spec, PagesKept
=============================================================================
