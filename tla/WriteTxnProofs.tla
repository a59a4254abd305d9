--------------------------- MODULE WriteTxnProofs ---------------------------
(***************************************************************************)
(* What holds of WriteTxn for every number of tables and calls, and        *)
(* however deep predicates call back.                                      *)
(***************************************************************************)
EXTENDS WriteTxn, TLAPS

-----------------------------------------------------------------------------
(* The inductive invariant *)

Unique(d) == \A i, j \in LiveIds(d) : d[i].name = d[j].name => i = j
Copy == [data : Seq(Def), tabs : UNION {[N -> Nat] : N \in SUBSET Names}]
Waiting == [copy : Copy, id : Nat]

\* A copy has unique names, and its handles are those of its bytes.
CopyOK(w) == w \in Copy /\ Unique(w.data) /\ w.tabs = Loaded(w.data)

StackOK == /\ stack \in Seq(Waiting)
           /\ \A k \in 1..Len(stack) : /\ CopyOK(stack[k].copy)
                                       /\ stack[k].id \in LiveIds(stack[k].copy.data)

\* A handle keeps the name it was made with.
HandlesOK == /\ DOMAIN heap \subseteq Objects
             /\ \A o \in DOMAIN heap : heap[o] \in Handle /\ heap[o].name = o[1]
             /\ \A n \in DOMAIN reg : reg[n] \in DOMAIN heap /\ reg[n][1] = n

IInv == /\ disk \in Seq(Def) /\ Unique(disk)
        /\ HandlesOK /\ HandlesCurrent /\ StackOK
        /\ Len(stack) <= MaxDepth
        /\ commits \in 0..MaxCommits /\ nested \in BOOLEAN

-----------------------------------------------------------------------------
(* Tables by name *)

\* Where names are unique it does not matter which row of a name counts.
LEMMA LoadedFacts ==
  ASSUME NEW d \in Seq(Def), Unique(d)
  PROVE  /\ NamesOf(d) \subseteq Names
         /\ Loaded(d) \in [NamesOf(d) -> Nat]
         /\ \A n \in NamesOf(d) : Loaded(d)[n] \in LiveIds(d) /\ d[Loaded(d)[n]].name = n
         /\ \A i \in LiveIds(d) : Loaded(d)[d[i].name] = i
<1>1. \A i \in LiveIds(d) : i \in Nat /\ d[i] \in Def
  BY DEF LiveIds
<1>2. NamesOf(d) \subseteq Names
  BY <1>1 DEF NamesOf, Def
<1>3. ASSUME NEW i \in LiveIds(d) PROVE Max({j \in LiveIds(d) : d[j].name = d[i].name}) = i
  <2>1. {j \in LiveIds(d) : d[j].name = d[i].name} = {i}
    BY DEF Unique
  <2>2. i \in Nat
    BY <1>1
  <2>3. QED
    BY <2>1, <2>2 DEF Max
<1>4. \A n \in NamesOf(d) : \E i \in LiveIds(d) : d[i].name = n
  BY DEF NamesOf
<1>5. \A i \in LiveIds(d) : d[i].name \in NamesOf(d) /\ Loaded(d)[d[i].name] = i
  BY <1>3 DEF NamesOf, Loaded
<1>6. Loaded(d) = [n \in NamesOf(d) |-> Loaded(d)[n]]
  BY DEF Loaded
<1>7. \A n \in NamesOf(d) : Loaded(d)[n] \in LiveIds(d) /\ d[Loaded(d)[n]].name = n
  BY <1>4, <1>5
<1>8. Loaded(d) \in [NamesOf(d) -> Nat]
  BY <1>1, <1>6, <1>7
<1>9. QED
  BY <1>2, <1>5, <1>7, <1>8

LEMMA CloneOK == ASSUME IInv PROVE CopyOK(Clone)
<1>1. NamesOf(disk) \in SUBSET Names /\ Loaded(disk) \in [NamesOf(disk) -> Nat]
  BY LoadedFacts DEF IInv
<1>2. Clone \in Copy
  BY <1>1 DEF IInv, Clone, Copy
<1>3. QED
  BY <1>2 DEF IInv, Clone, CopyOK

\* Rows come and go without a change of names.
WithRow(t) == [t EXCEPT !.rows = @ \cup {commits + 1}]

LEMMA WrittenOK ==
  ASSUME IInv, commits < MaxCommits, NEW w, CopyOK(w), NEW id \in LiveIds(w.data)
  PROVE  /\ CopyOK(Written(w, id))
         /\ LiveIds(Written(w, id).data) = LiveIds(w.data)
         /\ NamesOf(Written(w, id).data) = NamesOf(w.data)
         /\ Written(w, id).data = [w.data EXCEPT ![id] = WithRow(w.data[id])]
<1>1. w.data \in Seq(Def) /\ id \in DOMAIN w.data /\ commits + 1 \in Calls
  BY BoundsAssumption DEF IInv, CopyOK, Copy, LiveIds, Calls
<1> DEFINE e == WithRow(w.data[id])
           d == [w.data EXCEPT ![id] = e]
<1>2. Written(w, id) = [data |-> d, tabs |-> w.tabs]
  <2>1. w = [data |-> w.data, tabs |-> w.tabs]
    BY DEF CopyOK, Copy
  <2>2. Written(w, id) = [w EXCEPT !.data = d]
    BY DEF Written, WithRow
  <2>3. QED
    BY <2>1, <2>2
<1>3. d \in Seq(Def) /\ DOMAIN d = DOMAIN w.data
  <2>1. w.data[id] \in Def
    BY <1>1
  <2>2. e \in Def
    BY <1>1, <2>1 DEF Def, WithRow
  <2>3. QED
    BY <1>1, <2>2
<1>4. \A i \in DOMAIN d : d[i].name = w.data[i].name /\ d[i].live = w.data[i].live
  BY <1>1 DEF Def, WithRow
<1>5. LiveIds(d) = LiveIds(w.data)
  BY <1>3, <1>4 DEF LiveIds
<1>6. \A i \in LiveIds(d) : d[i].name = w.data[i].name
  BY <1>4 DEF LiveIds
<1>7. Unique(d)
  BY <1>5, <1>6 DEF CopyOK, Unique
<1>8. NamesOf(d) = NamesOf(w.data)
  BY <1>5, <1>6 DEF NamesOf
<1>9. \A n : {i \in LiveIds(d) : d[i].name = n} = {i \in LiveIds(w.data) : w.data[i].name = n}
  BY <1>5, <1>6
<1>10. Loaded(d) = Loaded(w.data)
  BY <1>8, <1>9 DEF Loaded
<1>11. CopyOK(Written(w, id))
  BY <1>2, <1>3, <1>7, <1>10 DEF CopyOK, Copy
<1>12. Written(w, id).data = d
  BY <1>2
<1>13. LiveIds(Written(w, id).data) = LiveIds(w.data) /\ NamesOf(Written(w, id).data) = NamesOf(w.data)
  BY <1>5, <1>8, <1>12
<1>14. QED
  BY <1>11, <1>12, <1>13

-----------------------------------------------------------------------------
(* replaceState *)

\* Tables have handles of their own, registered or new.
LEMMA TargetFacts ==
  ASSUME IInv, commits < MaxCommits, NEW w, CopyOK(w)
  PROVE  /\ DOMAIN w.tabs = NamesOf(w.data) /\ DOMAIN w.tabs \subseteq Names
         /\ \A n \in DOMAIN w.tabs : /\ Target(w, n) \in Objects /\ Target(w, n)[1] = n
                                     /\ Fill(w, n) \in Handle /\ Fill(w, n).name = n
<1>1. DOMAIN w.tabs = NamesOf(w.data) /\ DOMAIN w.tabs \subseteq Names
  BY LoadedFacts DEF CopyOK, Copy
<1>2. ASSUME NEW n \in DOMAIN w.tabs
      PROVE  Target(w, n) \in Objects /\ Target(w, n)[1] = n
  <2>1. <<n, commits + 1>> \in Objects
    BY <1>1, <1>2, BoundsAssumption DEF Objects, Calls, IInv
  <2>2. n \in Kept(w) => n \in DOMAIN reg
    BY DEF Kept
  <2>3. n \in DOMAIN reg => reg[n] \in Objects /\ reg[n][1] = n
    BY DEF IInv, HandlesOK
  <2>4. QED
    BY <2>1, <2>2, <2>3 DEF Target
<1>3. ASSUME NEW n \in DOMAIN w.tabs
      PROVE  Fill(w, n) \in Handle /\ Fill(w, n).name = n
  <2>1. w.data \in Seq(Def) /\ w.tabs[n] \in LiveIds(w.data)
    BY <1>1, LoadedFacts DEF CopyOK, Copy
  <2>2. w.data[w.tabs[n]] \in Def /\ w.tabs[n] \in Nat
    BY <2>1 DEF LiveIds
  <2>3. w.data[w.tabs[n]].rows \subseteq Calls
    BY <2>2 DEF Def
  <2>4. QED
    BY <1>1, <2>2, <2>3 DEF Fill, Handle
<1>4. QED
  BY <1>1, <1>2, <1>3

\* Whatever copy is put in place, the registered handles say of the tables what the copy says,
\* and the others keep what they said.
LEMMA InstallInv ==
  ASSUME IInv, NEW w, CopyOK(w), Install(w), StackOK', Len(stack') <= MaxDepth, nested' \in BOOLEAN
  PROVE  /\ IInv'
         /\ \A o \in DOMAIN heap : o \in DOMAIN heap' /\ heap'[o].name = heap[o].name
<1> DEFINE T == DOMAIN w.tabs
<1>1. /\ commits < MaxCommits
      /\ commits' = commits + 1 /\ disk' = w.data /\ reg' = Registered(w)
      /\ DOMAIN heap' = DOMAIN heap \cup {Target(w, n) : n \in T}
  BY DEF Install, Handles
<1>2. /\ T = NamesOf(w.data) /\ T \subseteq Names
      /\ \A n \in T : /\ Target(w, n) \in Objects /\ Target(w, n)[1] = n
                      /\ Fill(w, n) \in Handle /\ Fill(w, n).name = n
  BY <1>1, TargetFacts
<1>3. ASSUME NEW n \in T PROVE heap'[Target(w, n)] = Fill(w, n)
  <2>1. Target(w, n) \in Handles(w)
    BY DEF Handles
  <2>2. \A m \in T : Target(w, m) = Target(w, n) => m = n
    BY <1>2
  <2>3. (CHOOSE m \in T : Target(w, m) = Target(w, n)) = n
    BY <2>2
  <2>4. QED
    BY <2>1, <2>3 DEF Install
<1>4. ASSUME NEW o \in DOMAIN heap, \A n \in T : Target(w, n) # o PROVE heap'[o] = heap[o]
  BY <1>4 DEF Install, Handles
<1>5. reg' = [n \in T |-> Target(w, n)]
  BY <1>1 DEF Registered, Kept
<1>6. HandlesOK'
  <2>1. DOMAIN heap' \subseteq Objects
    BY <1>1, <1>2 DEF IInv, HandlesOK
  <2>2. ASSUME NEW o \in DOMAIN heap' PROVE heap'[o] \in Handle /\ heap'[o].name = o[1]
    <3>1. CASE \E n \in T : Target(w, n) = o
      BY <3>1, <1>2, <1>3
    <3>2. CASE \A n \in T : Target(w, n) # o
      <4>1. o \in DOMAIN heap
        BY <1>1, <3>2
      <4>2. QED
        BY <1>4, <3>2, <4>1 DEF IInv, HandlesOK
    <3>3. QED
      BY <3>1, <3>2
  <2>3. \A n \in DOMAIN reg' : reg'[n] \in DOMAIN heap' /\ reg'[n][1] = n
    BY <1>1, <1>2, <1>5
  <2>4. QED
    BY <2>1, <2>2, <2>3 DEF HandlesOK
<1>7. HandlesCurrent'
  <2>1. disk' \in Seq(Def) /\ Loaded(disk)' = w.tabs /\ NamesOf(disk)' = T
    BY <1>1, <1>2 DEF CopyOK, Copy, Loaded, NamesOf, LiveIds
  <2>2. \A n \in T : Fill(Clone, n)' = Fill(w, n)
    BY <1>1, <2>1 DEF Fill, Clone
  <2>3. QED
    BY <1>3, <1>5, <2>1, <2>2 DEF HandlesCurrent
<1>8. disk' \in Seq(Def) /\ Unique(disk)'
  BY <1>1 DEF CopyOK, Copy, Unique, LiveIds
<1>9. commits' \in 0..MaxCommits
  BY <1>1, BoundsAssumption DEF IInv
<1>10. IInv'
  BY <1>6, <1>7, <1>8, <1>9 DEF IInv
<1>11. ASSUME NEW o \in DOMAIN heap PROVE o \in DOMAIN heap' /\ heap'[o].name = heap[o].name
  BY <1>1, <1>6 DEF IInv, HandlesOK
<1>12. QED
  BY <1>10, <1>11

-----------------------------------------------------------------------------
(* One lemma per call *)

Keeps == \A o \in DOMAIN heap : o \in DOMAIN heap' /\ heap'[o].name = heap[o].name

LEMMA InitInv == Init => IInv
<1>1. LiveIds(<<>>) = {} /\ NamesOf(<<>>) = {}
  BY DEF LiveIds, NamesOf
<1>2. QED
  BY <1>1, BoundsAssumption DEF Init, IInv, Unique, HandlesOK, HandlesCurrent, StackOK

LEMMA SameStack == ASSUME IInv, UNCHANGED stack PROVE StackOK' /\ Len(stack') <= MaxDepth
  BY DEF IInv, StackOK

LEMMA CreateTableInv == ASSUME IInv, NEW n \in Names, CreateTable(n) PROVE IInv' /\ Keeps
<1> DEFINE d == Append(disk, NewDef(Clone, n))
           w == [data |-> d, tabs |-> [m \in DOMAIN Clone.tabs \cup {n} |->
                                         IF m = n THEN Len(disk) + 1 ELSE Clone.tabs[m]]]
<1>1. n \notin NamesOf(disk) /\ disk \in Seq(Def) /\ Unique(disk)
  BY DEF CreateTable, Creatable, IInv, HandlesCurrent
<1>2. Install(w) /\ UNCHANGED <<stack, nested>>
  BY DEF CreateTable, Clone
<1>3. NewDef(Clone, n) \in Def /\ NewDef(Clone, n).live /\ NewDef(Clone, n).name = n
  BY DEF NewDef, Def
<1>4. /\ d \in Seq(Def) /\ DOMAIN d = DOMAIN disk \cup {Len(disk) + 1} /\ Len(disk) + 1 \notin DOMAIN disk
      /\ d[Len(disk) + 1] = NewDef(Clone, n) /\ \A i \in DOMAIN disk : d[i] = disk[i]
  BY <1>1, <1>3
<1>5. LiveIds(d) = LiveIds(disk) \cup {Len(disk) + 1}
  BY <1>3, <1>4 DEF LiveIds
<1>6. Unique(d)
  BY <1>1, <1>3, <1>4, <1>5 DEF Unique, NamesOf, LiveIds
<1>7. NamesOf(d) = NamesOf(disk) \cup {n}
  BY <1>3, <1>4, <1>5 DEF NamesOf, LiveIds
<1> HIDE DEF d
<1>13. /\ NamesOf(d) \subseteq Names /\ Loaded(d) \in [NamesOf(d) -> Nat]
       /\ \A i \in LiveIds(d) : Loaded(d)[d[i].name] = i
  BY <1>4, <1>6, LoadedFacts
<1>8. w.tabs = Loaded(d)
  <2>1. Loaded(d)[n] = Len(disk) + 1
    BY <1>3, <1>4, <1>5, <1>13
  <2>2. ASSUME NEW m \in NamesOf(disk) PROVE Loaded(d)[m] = Loaded(disk)[m]
    <3>1. Loaded(disk)[m] \in LiveIds(disk) /\ disk[Loaded(disk)[m]].name = m
      BY <1>1, LoadedFacts
    <3>2. Loaded(disk)[m] \in LiveIds(d) /\ d[Loaded(disk)[m]].name = m
      BY <1>4, <1>5, <3>1 DEF LiveIds
    <3>3. QED
      BY <3>2, <1>13
  <2>3. Clone.tabs = Loaded(disk) /\ DOMAIN Loaded(disk) = NamesOf(disk)
    BY DEF Clone, Loaded
  <2>4. Loaded(d) = [m \in NamesOf(d) |-> Loaded(d)[m]]
    BY DEF Loaded
  <2>5. w.tabs = [m \in NamesOf(disk) \cup {n} |-> IF m = n THEN Len(disk) + 1 ELSE Loaded(disk)[m]]
    BY <2>3
  <2>6. QED
    BY <1>1, <1>7, <2>1, <2>2, <2>4, <2>5
<1>9. w \in Copy
  BY <1>4, <1>8, <1>13 DEF Copy
<1>10. CopyOK(w)
  BY <1>6, <1>8, <1>9 DEF CopyOK
<1>11. StackOK' /\ Len(stack') <= MaxDepth /\ nested' \in BOOLEAN
  BY <1>2, SameStack DEF IInv
<1>12. QED
  BY <1>2, <1>10, <1>11, InstallInv DEF Keeps

LEMMA DropTableInv == ASSUME IInv, NEW n \in Names, DropTable(n) PROVE IInv' /\ Keeps
<1> DEFINE id == Loaded(disk)[n]
           d == [disk EXCEPT ![id] = [@ EXCEPT !.live = FALSE]]
           w == [data |-> d, tabs |-> [m \in NamesOf(disk) \ {n} |-> Loaded(disk)[m]]]
<1>1. disk \in Seq(Def) /\ Unique(disk) /\ n \in NamesOf(disk)
  BY DEF DropTable, IInv, Clone, Loaded
<1>2. id \in LiveIds(disk) /\ disk[id].name = n /\ id \in DOMAIN disk /\ disk[id] \in Def
  BY <1>1, LoadedFacts DEF LiveIds
<1>3. Install(w) /\ UNCHANGED <<stack, nested>>
  <2>1. Clone = [data |-> disk, tabs |-> Loaded(disk)] /\ DOMAIN Loaded(disk) = NamesOf(disk)
    BY DEF Clone, Loaded
  <2>2. w = [data |-> [Clone.data EXCEPT ![Clone.tabs[n]].live = FALSE],
             tabs |-> [m \in DOMAIN Clone.tabs \ {n} |-> Clone.tabs[m]]]
    BY <2>1
  <2>3. QED
    BY <2>2 DEF DropTable
<1>4. [disk[id] EXCEPT !.live = FALSE] \in Def
  BY <1>2 DEF Def
<1>5. /\ d \in Seq(Def) /\ DOMAIN d = DOMAIN disk /\ \A i \in DOMAIN disk : i # id => d[i] = disk[i]
      /\ d[id] = [disk[id] EXCEPT !.live = FALSE]
  BY <1>1, <1>2, <1>4
<1>6. LiveIds(d) = LiveIds(disk) \ {id}
  BY <1>2, <1>5 DEF LiveIds, Def
<1>7. \A i \in LiveIds(d) : d[i] = disk[i] /\ i \in LiveIds(disk) /\ i # id
  BY <1>5, <1>6 DEF LiveIds
<1>8. Unique(d)
  BY <1>1, <1>7 DEF Unique
<1>9. NamesOf(d) = NamesOf(disk) \ {n}
  <2>1. \A i \in LiveIds(disk) : disk[i].name = n <=> i = id
    BY <1>1, <1>2 DEF Unique
  <2>2. \A m : m \in NamesOf(d) <=> \E i \in LiveIds(disk) : i # id /\ disk[i].name = m
    BY <1>6, <1>7 DEF NamesOf
  <2>3. \A m : m \in NamesOf(disk) <=> \E i \in LiveIds(disk) : disk[i].name = m
    BY DEF NamesOf
  <2>4. QED
    BY <2>1, <2>2, <2>3
<1> HIDE DEF d, id
<1>15. /\ NamesOf(d) \subseteq Names /\ Loaded(d) \in [NamesOf(d) -> Nat]
       /\ \A i \in LiveIds(d) : Loaded(d)[d[i].name] = i
  BY <1>5, <1>8, LoadedFacts
<1>16. \A i \in LiveIds(disk) : Loaded(disk)[disk[i].name] = i
  BY <1>1, LoadedFacts
<1>10. w.tabs = Loaded(d)
  <2>1. ASSUME NEW m \in NamesOf(d) PROVE Loaded(d)[m] = Loaded(disk)[m]
    <3>1. PICK i \in LiveIds(d) : d[i].name = m
      BY DEF NamesOf
    <3>2. Loaded(d)[m] = i /\ Loaded(disk)[m] = i
      BY <1>7, <1>15, <1>16, <3>1
    <3>3. QED
      BY <3>2
  <2>2. Loaded(d) = [m \in NamesOf(d) |-> Loaded(d)[m]]
    BY DEF Loaded
  <2>3. QED
    BY <1>9, <2>1, <2>2
<1>11. w \in Copy
  BY <1>5, <1>10, <1>15 DEF Copy
<1>12. CopyOK(w)
  BY <1>8, <1>10, <1>11 DEF CopyOK
<1>13. StackOK' /\ Len(stack') <= MaxDepth /\ nested' \in BOOLEAN
  BY <1>3, SameStack DEF IInv
<1>14. QED
  BY <1>3, <1>12, <1>13, InstallInv DEF Keeps

LEMMA InsertInv == ASSUME IInv, NEW o \in DOMAIN heap, Insert(o) PROVE IInv' /\ Keeps
<1> DEFINE id == Clone.tabs[heap[o].name]
<1>1. CopyOK(Clone)
  BY CloneOK
<1>2. id \in LiveIds(Clone.data)
  BY LoadedFacts DEF Insert, Clone, Loaded, IInv
<1>3. Install(Written(Clone, id)) /\ UNCHANGED <<stack, nested>> /\ commits < MaxCommits
  BY DEF Insert, Install
<1>4. CopyOK(Written(Clone, id))
  BY <1>1, <1>2, <1>3, WrittenOK
<1>5. StackOK' /\ Len(stack') <= MaxDepth /\ nested' \in BOOLEAN
  BY <1>3, SameStack DEF IInv
<1>6. QED
  BY <1>3, <1>4, <1>5, InstallInv DEF Keeps

\* The invariant is about disk, reg, heap and commits, and about the stack apart from them.
LEMMA SameWorld ==
  ASSUME IInv, UNCHANGED <<disk, reg, heap, commits, nested>>, StackOK', Len(stack') <= MaxDepth
  PROVE  IInv' /\ Keeps
<1>1. HandlesOK' /\ Keeps
  BY DEF IInv, HandlesOK, Keeps
<1>2. NamesOf(disk)' = NamesOf(disk) /\ Clone' = Clone /\ Unique(disk)'
  BY DEF IInv, NamesOf, LiveIds, Clone, Loaded, Unique
<1>3. \A n : Fill(Clone, n)' = Fill(Clone, n)
  BY <1>2 DEF Fill
<1>4. HandlesCurrent'
  BY <1>2, <1>3 DEF IInv, HandlesCurrent
<1>5. QED
  BY <1>1, <1>2, <1>4 DEF IInv

LEMMA BeginInv == ASSUME IInv, NEW o \in DOMAIN heap, Begin(o) PROVE IInv' /\ Keeps
<1> DEFINE e == [copy |-> Clone, id |-> Clone.tabs[heap[o].name]]
<1>1. CopyOK(Clone)
  BY CloneOK
<1>2. e.id \in LiveIds(Clone.data)
  BY LoadedFacts DEF Begin, Clone, Loaded, IInv
<1>3. e \in Waiting
  BY <1>1, <1>2 DEF Waiting, CopyOK, Copy, LiveIds
<1>4. stack' = Append(stack, e) /\ Len(stack) < MaxDepth /\ UNCHANGED <<disk, reg, heap, commits, nested>>
  BY DEF Begin
<1>5. /\ stack' \in Seq(Waiting) /\ Len(stack') = Len(stack) + 1 /\ stack'[Len(stack) + 1] = e
      /\ \A k \in 1..Len(stack) : stack'[k] = stack[k]
  BY <1>3, <1>4 DEF IInv, StackOK
<1>6. ASSUME NEW k \in 1..Len(stack')
      PROVE  CopyOK(stack'[k].copy) /\ stack'[k].id \in LiveIds(stack'[k].copy.data)
  <2>1. CASE k = Len(stack) + 1
    BY <1>1, <1>2, <1>5, <2>1
  <2>2. CASE k # Len(stack) + 1
    BY <1>5, <2>2 DEF IInv, StackOK
  <2>3. QED
    BY <2>1, <2>2
<1>7. StackOK'
  BY <1>5, <1>6 DEF StackOK
<1>8. Len(stack') <= MaxDepth
  BY <1>4, <1>5, BoundsAssumption DEF IInv, StackOK
<1>9. QED
  BY <1>4, <1>7, <1>8, SameWorld

\* The stack without its last entry.
LEMMA PopOK == ASSUME IInv, stack # <<>>, stack' = Front(stack)
               PROVE  StackOK' /\ Len(stack') <= MaxDepth
<1>1. stack \in Seq(Waiting) /\ Len(stack) \in Nat /\ Len(stack) > 0
  BY DEF IInv, StackOK
<1>2. /\ stack' \in Seq(Waiting) /\ Len(stack') = Len(stack) - 1
      /\ \A k \in 1..Len(stack') : stack'[k] = stack[k] /\ k \in 1..Len(stack)
  <2>1. stack' = [k \in 1..(Len(stack) - 1) |-> stack[k]]
    BY <1>1 DEF Front
  <2>2. \A k \in 1..(Len(stack) - 1) : k \in 1..Len(stack) /\ stack[k] \in Waiting
    BY <1>1
  <2>3. Len(stack) - 1 \in Nat
    BY <1>1
  <2>4. stack' \in Seq(Waiting) /\ Len(stack') = Len(stack) - 1
    BY <2>1, <2>2, <2>3
  <2>5. QED
    BY <2>1, <2>2, <2>4
<1>3. \A k \in 1..Len(stack') : CopyOK(stack'[k].copy) /\ stack'[k].id \in LiveIds(stack'[k].copy.data)
  BY <1>2 DEF IInv, StackOK
<1>4. StackOK'
  BY <1>2, <1>3 DEF StackOK
<1>5. QED
  BY <1>1, <1>2, <1>4, BoundsAssumption DEF IInv

LEMMA FinishInv == ASSUME IInv, Finish PROVE IInv' /\ Keeps
<1> DEFINE c == Last(stack).copy  id == Last(stack).id
<1>1. stack # <<>> /\ stack' = Front(stack) /\ UNCHANGED nested
  BY DEF Finish
<1>2. PICK w \in {Written(c, id), c} : Install(w)
  BY DEF Finish
<1>3. CopyOK(c) /\ id \in LiveIds(c.data)
  BY <1>1 DEF IInv, StackOK, Last
<1>4. CopyOK(w)
  <2>1. commits < MaxCommits
    BY <1>2 DEF Install
  <2>2. CopyOK(Written(c, id))
    BY <1>3, <2>1, WrittenOK
  <2>3. QED
    BY <1>2, <1>3, <2>2
<1>5. StackOK' /\ Len(stack') <= MaxDepth /\ nested' \in BOOLEAN
  BY <1>1, PopOK DEF IInv
<1>6. QED
  BY <1>2, <1>4, <1>5, InstallInv DEF Keeps

LEMMA AbortInv == ASSUME IInv, Abort PROVE IInv' /\ Keeps
<1>1. StackOK' /\ Len(stack') <= MaxDepth
  BY PopOK DEF Abort
<1>2. QED
  BY <1>1, SameWorld DEF Abort

-----------------------------------------------------------------------------
(* The theorems *)

LEMMA StepInv == IInv /\ [Next]_vars => IInv' /\ Keeps
<1> SUFFICES ASSUME IInv, [Next]_vars PROVE IInv' /\ Keeps
  OBVIOUS
<1>1. CASE Next
  BY <1>1, CreateTableInv, DropTableInv, InsertInv, BeginInv, FinishInv, AbortInv DEF Next
<1>2. CASE UNCHANGED vars
  <2>1. StackOK' /\ Len(stack') <= MaxDepth
    BY <1>2, SameStack DEF vars
  <2>2. QED
    BY <1>2, <2>1, SameWorld DEF vars
<1>3. QED
  BY <1>1, <1>2

\* Every working copy and every handle agrees with the bytes it was made from, however calls
\* are nested (withWriteTransaction, deepClone, replaceState).
THEOREM Invariance == Spec => []IInv
<1>1. QED
  BY InitInv, StepInv, PTL DEF Spec

\* Every state has its type, for any number of tables, calls and depth of calls.
THEOREM TypeCorrect == Spec => []TypeOK
<1>1. IInv => TypeOK
  <2>1. SUFFICES ASSUME IInv PROVE TypeOK
    OBVIOUS
  <2>2. DOMAIN reg \subseteq Names
    BY <2>1, LoadedFacts DEF IInv, HandlesCurrent
  <2>3. \A n \in DOMAIN reg : reg[n] \in DOMAIN heap
    BY <2>1 DEF IInv, HandlesOK
  <2>4. DOMAIN heap \subseteq Objects /\ \A o \in DOMAIN heap : heap[o] \in Handle
    BY <2>1 DEF IInv, HandlesOK
  <2>5. disk \in Seq(Def) /\ Len(stack) <= MaxDepth /\ commits \in 0..MaxCommits /\ nested \in BOOLEAN
    BY <2>1 DEF IInv
  <2>6. QED
    BY <2>2, <2>3, <2>4, <2>5 DEF TypeOK
<1>2. QED
  BY <1>1, Invariance, PTL

\* A handle from db.Table is up to date, in whatever order nested calls end (replaceState).
THEOREM Current == Spec => []HandlesCurrent
<1>1. IInv => HandlesCurrent
  BY DEF IInv
<1>2. QED
  BY <1>1, Invariance, PTL

\* No name is twice in the catalog, although CreateTable asks db.tables only.
THEOREM OneRowPerName == Spec => []NamesUnique
<1>1. IInv => NamesUnique
  BY DEF IInv, NamesUnique, Unique
<1>2. QED
  BY <1>1, Invariance, PTL

\* A handle that a caller keeps never becomes the handle of another table (replaceState).
THEOREM HandlesKeepNames == Spec => HandleKeepsName
<1>1. IInv /\ [Next]_vars => [\A o \in DOMAIN heap : heap'[o].name = heap[o].name]_vars
  BY StepInv DEF Keeps
<1>2. QED
  BY <1>1, Invariance, PTL DEF Spec, HandleKeepsName

-----------------------------------------------------------------------------
(* Calls take effect one after the other *)

\* While predicates only look at rows, no call starts while another waits for its predicate, so
\* that a copy put in place was made from what is there.
Alone == nested \/ /\ Len(stack) <= 1
                   /\ \A k \in 1..Len(stack) : stack[k].copy = Clone
                   /\ \A i \in DOMAIN disk : disk[i].rows \subseteq 1..commits

\* How one call changes the bytes, if nested calls are left out: a table more, one less, a row
\* of one table, or nothing.
Created(d, e) == \E n \in Names \ NamesOf(d) : e = Append(d, [name |-> n, live |-> TRUE, rows |-> {}])
Dropped(d, e) == \E i \in LiveIds(d) : e = [d EXCEPT ![i] = [d[i] EXCEPT !.live = FALSE]]
Changed(d, e) == \E i \in LiveIds(d) : e = [d EXCEPT ![i] = WithRow(d[i])]

LEMMA OneCall ==
  ASSUME IInv, Alone, ~ nested, Next
  PROVE  /\ \/ commits < MaxCommits /\ commits' = commits + 1
               /\ (Created(disk, disk') \/ Dropped(disk, disk') \/ Changed(disk, disk') \/ disk' = disk)
            \/ UNCHANGED <<disk, commits>>
         /\ Alone'
<1>1. /\ CopyOK(Clone) /\ Clone.data = disk /\ Clone.tabs = Loaded(disk) /\ disk \in Seq(Def)
      /\ DOMAIN Loaded(disk) = NamesOf(disk) /\ commits \in Nat
      /\ \A n \in NamesOf(disk) : Loaded(disk)[n] \in LiveIds(disk)
  BY CloneOK, LoadedFacts DEF Clone, IInv, Loaded
<1>2. ASSUME commits < MaxCommits, commits' = commits + 1, Len(stack') = 0,
             Created(disk, disk') \/ Dropped(disk, disk') \/ Changed(disk, disk') \/ disk' = disk
      PROVE  Alone'
  <2>1. \A i \in DOMAIN disk : disk[i] \in Def /\ disk[i].rows \subseteq 1..(commits + 1)
    BY <1>1 DEF Alone
  <2>2. ASSUME NEW i \in DOMAIN disk' PROVE disk'[i].rows \subseteq 1..(commits + 1)
    <3>1. CASE Created(disk, disk')
      BY <1>1, <2>1, <3>1 DEF Created
    <3>2. CASE Dropped(disk, disk')
      BY <1>1, <2>1, <3>2 DEF Dropped, LiveIds, Def
    <3>3. CASE Changed(disk, disk')
      <4>1. PICK j \in LiveIds(disk) : disk' = [disk EXCEPT ![j] = WithRow(disk[j])]
        BY <3>3 DEF Changed
      <4>2. j \in DOMAIN disk /\ i \in DOMAIN disk
        BY <1>1, <2>2, <4>1 DEF LiveIds
      <4>3. disk[j].rows \cup {commits + 1} \subseteq 1..(commits + 1)
        BY <1>1, <2>1, <4>2
      <4>4. i = j => disk'[i] = WithRow(disk[i])
        BY <4>1, <4>2
      <4>5. i # j => disk'[i] = disk[i]
        BY <4>1, <4>2
      <4>6. QED
        BY <2>1, <4>2, <4>3, <4>4, <4>5 DEF Def, WithRow
    <3>4. CASE disk' = disk
      BY <2>1, <3>4
    <3>5. QED
      BY <1>2, <3>1, <3>2, <3>3, <3>4
  <2>3. \A k \in 1..Len(stack') : stack'[k].copy = Clone'
    BY <1>2
  <2>4. QED
    BY <1>2, <2>2, <2>3 DEF Alone
<1>3. ASSUME NEW n \in Names, CreateTable(n)
      PROVE  commits < MaxCommits /\ commits' = commits + 1 /\ Len(stack') = 0 /\ Created(disk, disk')
  <2>1. stack = <<>> /\ stack' = stack /\ n \notin NamesOf(disk)
    BY <1>3 DEF CreateTable, Callable, Creatable, IInv, HandlesCurrent
  <2>2. disk' = Append(disk, [name |-> n, live |-> TRUE, rows |-> {}])
    BY <1>1, <1>3 DEF CreateTable, Install, NewDef
  <2>3. QED
    BY <1>3, <2>1, <2>2 DEF CreateTable, Install, Created
<1>4. ASSUME NEW n \in Names, DropTable(n)
      PROVE  commits < MaxCommits /\ commits' = commits + 1 /\ Len(stack') = 0 /\ Dropped(disk, disk')
  <2>1. stack = <<>> /\ stack' = stack /\ Loaded(disk)[n] \in LiveIds(disk)
    BY <1>1, <1>4 DEF DropTable, Callable
  <2>2. disk' = [disk EXCEPT ![Loaded(disk)[n]] = [disk[Loaded(disk)[n]] EXCEPT !.live = FALSE]]
    BY <1>1, <1>4 DEF DropTable, Install
  <2>3. QED
    BY <1>4, <2>1, <2>2 DEF DropTable, Install, Dropped
<1>5. ASSUME NEW o \in DOMAIN heap, Insert(o)
      PROVE  commits < MaxCommits /\ commits' = commits + 1 /\ Len(stack') = 0 /\ Changed(disk, disk')
  <2>1. stack = <<>> /\ stack' = stack /\ Loaded(disk)[heap[o].name] \in LiveIds(disk)
    BY <1>1, <1>5 DEF Insert, Callable
  <2>2. commits < MaxCommits /\ commits' = commits + 1
        /\ disk' = Written(Clone, Loaded(disk)[heap[o].name]).data
    BY <1>1, <1>5 DEF Insert, Install
  <2>3. Changed(disk, disk')
    BY <1>1, <2>1, <2>2, WrittenOK DEF Changed
  <2>4. QED
    BY <2>1, <2>2, <2>3
<1>6. ASSUME NEW o \in DOMAIN heap, Begin(o) PROVE UNCHANGED <<disk, commits>> /\ Alone'
  <2>1. stack = <<>> /\ UNCHANGED <<disk, commits>>
        /\ stack' = Append(stack, [copy |-> Clone, id |-> Clone.tabs[heap[o].name]])
    BY <1>6 DEF Begin, Callable
  <2>2. stack' = <<[copy |-> Clone, id |-> Clone.tabs[heap[o].name]]>>
    BY <2>1
  <2>3. Clone' = Clone
    BY <2>1 DEF Clone, Loaded, NamesOf, LiveIds
  <2>4. Len(stack') = 1 /\ \A k \in 1..Len(stack') : stack'[k].copy = Clone'
    BY <2>2, <2>3
  <2>5. QED
    BY <2>1, <2>4 DEF Alone
<1>7. ASSUME stack # <<>>, stack' = Front(stack)
      PROVE  Len(stack') = 0 /\ Last(stack).copy = Clone /\ Last(stack).id \in LiveIds(disk)
  <2>1. stack \in Seq(Waiting) /\ Len(stack) = 1 /\ stack[1].copy = Clone
    <3>1. stack \in Seq(Waiting) /\ Len(stack) \in Nat /\ Len(stack) # 0
      BY <1>7 DEF IInv, StackOK
    <3>2. Len(stack) <= 1
      BY Zenon DEF Alone
    <3>3. Len(stack) = 1
      <4>1. \A n \in Nat : n # 0 /\ n <= 1 => n = 1
        OBVIOUS
      <4>2. QED
        BY <3>1, <3>2, <4>1, Zenon
    <3>4. 1 \in 1..Len(stack)
      BY <3>3
    <3>5. stack[1].copy = Clone
      BY <3>4, Zenon DEF Alone
    <3>6. QED
      BY <3>1, <3>3, <3>5, Zenon
  <2>2. QED
    BY <1>1, <1>7, <2>1 DEF Front, Last, IInv, StackOK
<1>8. ASSUME Finish
      PROVE  commits < MaxCommits /\ commits' = commits + 1 /\ Len(stack') = 0
             /\ (Changed(disk, disk') \/ disk' = disk)
  <2>1. Len(stack') = 0 /\ Last(stack).copy = Clone /\ Last(stack).id \in LiveIds(disk)
    BY <1>7, <1>8 DEF Finish
  <2>2. PICK w \in {Written(Clone, Last(stack).id), Clone} : Install(w)
    BY <1>8, <2>1 DEF Finish
  <2>3. commits < MaxCommits /\ commits' = commits + 1 /\ disk' = w.data
    BY <2>2 DEF Install
  <2>4. Changed(disk, disk') \/ disk' = disk
    <3>1. CASE w = Clone
      BY <1>1, <2>3, <3>1
    <3>2. CASE w = Written(Clone, Last(stack).id)
      BY <1>1, <2>1, <2>3, <3>2, WrittenOK DEF Changed
    <3>3. QED
      BY <2>2, <3>1, <3>2
  <2>5. QED
    BY <2>1, <2>3, <2>4
<1>9. ASSUME Abort PROVE UNCHANGED <<disk, commits>> /\ Alone'
  <2>1. Len(stack') = 0 /\ UNCHANGED <<disk, commits>>
    BY <1>7, <1>9 DEF Abort
  <2>2. \A k \in 1..Len(stack') : stack'[k].copy = Clone'
    BY <2>1
  <2>3. QED
    BY <2>1, <2>2 DEF Alone
<1>10. CASE \/ \E n \in Names : CreateTable(n) \/ DropTable(n)
            \/ \E o \in DOMAIN heap : Insert(o)
            \/ Finish
  <2>1. /\ commits < MaxCommits /\ commits' = commits + 1 /\ Len(stack') = 0
        /\ (Created(disk, disk') \/ Dropped(disk, disk') \/ Changed(disk, disk') \/ disk' = disk)
    BY <1>3, <1>4, <1>5, <1>8, <1>10, Zenon
  <2>2. QED
    BY <1>2, <2>1
<1>11. CASE (\E o \in DOMAIN heap : Begin(o)) \/ Abort
  BY <1>6, <1>9, <1>11
<1>12. QED
  BY <1>10, <1>11 DEF Next

\* A table of View is the only live one of its name.
IsView(d, v) == /\ v \in [NamesOf(d) -> SUBSET Calls] /\ NamesOf(d) \subseteq Names
                /\ \A i \in LiveIds(d) : v[d[i].name] = d[i].rows

LEMMA NameFacts ==
  ASSUME NEW d
  PROVE  /\ \A i \in LiveIds(d) : d[i].name \in NamesOf(d)
         /\ \A n \in NamesOf(d) : \E i \in LiveIds(d) : d[i].name = n
  BY DEF NamesOf

LEMMA ViewFacts ==
  ASSUME NEW d \in Seq(Def), Unique(d),
         NEW v, v = [n \in NamesOf(d) |-> d[Loaded(d)[n]].rows]
  PROVE  IsView(d, v)
<1>1. /\ \A i \in LiveIds(d) : Loaded(d)[d[i].name] = i
      /\ \A n \in NamesOf(d) : Loaded(d)[n] \in LiveIds(d)
      /\ NamesOf(d) \subseteq Names
  BY LoadedFacts
<1>2. ASSUME NEW i \in LiveIds(d) PROVE d[i].rows \in SUBSET Calls
  <2>1. i \in DOMAIN d
    BY DEF LiveIds
  <2>2. d[i] \in Def
    BY <2>1
  <2>3. QED
    BY <2>2 DEF Def
<1>3. ASSUME NEW n \in NamesOf(d) PROVE d[Loaded(d)[n]].rows \in SUBSET Calls
  <2>1. Loaded(d)[n] \in LiveIds(d)
    BY <1>1
  <2>2. QED
    BY <1>2, <2>1, Zenon
<1>4. v \in [NamesOf(d) -> SUBSET Calls]
  BY <1>3
<1>5. ASSUME NEW i \in LiveIds(d) PROVE v[d[i].name] = d[i].rows
  <2>1. d[i].name \in NamesOf(d) /\ Loaded(d)[d[i].name] = i
    BY <1>1, NameFacts, Zenon
  <2>2. QED
    BY <2>1
<1>6. QED
  BY <1>1, <1>4, <1>5 DEF IsView

LEMMA Views == ASSUME IInv, IInv' PROVE  IsView(disk, View) /\ IsView(disk', View')
<1>1. View = [n \in NamesOf(disk) |-> disk[Loaded(disk)[n]].rows]
  BY DEF View
<1>2. View' = [n \in NamesOf(disk') |-> disk'[Loaded(disk')[n]].rows]
  BY DEF View, NamesOf, Loaded, LiveIds
<1>3. disk' \in Seq(Def) /\ Unique(disk')
  BY DEF IInv, Unique, LiveIds
<1>4. disk \in Seq(Def) /\ Unique(disk)
  BY DEF IInv
<1>5. IsView(disk, View)
  BY <1>1, <1>4, ViewFacts
<1>6. IsView(disk', View')
  BY <1>2, <1>3, ViewFacts
<1>7. QED
  BY <1>5, <1>6

\* How the view changes with the bytes, from d with view v to e with view w.
ViewCreates(d, v, w, n) ==
  /\ DOMAIN v = NamesOf(d)
  /\ w = [m \in NamesOf(d) \cup {n} |-> IF m = n THEN {} ELSE v[m]]
ViewDrops(d, v, w, n) ==
  /\ DOMAIN v = NamesOf(d) /\ n \in NamesOf(d)
  /\ w = [m \in NamesOf(d) \ {n} |-> v[m]]
ViewChanges(d, v, w, n) ==
  /\ DOMAIN v = NamesOf(d) /\ n \in NamesOf(d)
  /\ w = [v EXCEPT ![n] = @ \cup {commits + 1}]

LEMMA CreateMaps ==
  ASSUME NEW d \in Seq(Def), NEW e, NEW v, NEW w, IsView(d, v), IsView(e, w), NEW n \in Names,
         n \notin NamesOf(d), e = Append(d, [name |-> n, live |-> TRUE, rows |-> {}])
  PROVE  ViewCreates(d, v, w, n)
<1>1. /\ DOMAIN e = DOMAIN d \cup {Len(d) + 1} /\ e[Len(d) + 1] = [name |-> n, live |-> TRUE, rows |-> {}]
      /\ \A i \in DOMAIN d : e[i] = d[i]
  BY DEF Def
<1>2. LiveIds(e) = LiveIds(d) \cup {Len(d) + 1} /\ \A i \in LiveIds(d) : e[i] = d[i]
  BY <1>1 DEF LiveIds
<1>3. Len(d) + 1 \in LiveIds(e) /\ e[Len(d) + 1].name = n /\ e[Len(d) + 1].rows = {}
  <2>1. Len(d) + 1 \in LiveIds(e)
    BY <1>2, Zenon
  <2>2. e[Len(d) + 1].name = n /\ e[Len(d) + 1].rows = {}
    BY <1>1
  <2>3. QED
    BY <2>1, <2>2, Zenon
<1>4. w[n] = {}
  BY <1>3, Zenon DEF IsView
<1>5. ASSUME NEW m \in NamesOf(d) PROVE w[m] = v[m]
  <2>1. PICK i \in LiveIds(d) : d[i].name = m
    BY NameFacts
  <2>2. i \in LiveIds(e) /\ e[i] = d[i]
    BY <1>2, <2>1
  <2>3. w[e[i].name] = e[i].rows /\ v[d[i].name] = d[i].rows
    BY <2>1, <2>2, Zenon DEF IsView
  <2>4. QED
    BY <2>1, <2>2, <2>3
<1>6. \A m : m \in NamesOf(e) <=> m \in NamesOf(d) \cup {n}
  <2>1. NamesOf(e) = {e[i].name : i \in LiveIds(d) \cup {Len(d) + 1}}
    BY <1>2, Zenon DEF NamesOf
  <2>2. NamesOf(d) = {d[i].name : i \in LiveIds(d)}
    BY DEF NamesOf
  <2>3. ASSUME NEW m PROVE (\E i \in LiveIds(d) \cup {Len(d) + 1} : e[i].name = m)
                           <=> (\E i \in LiveIds(d) : d[i].name = m) \/ m = n
    BY <1>2, <1>3
  <2>4. QED
    BY <2>1, <2>2, <2>3, Zenon
<1>7. NamesOf(e) = NamesOf(d) \cup {n}
  BY <1>6
<1>8. v \in [NamesOf(d) -> SUBSET Calls] /\ w \in [NamesOf(d) \cup {n} -> SUBSET Calls]
  BY <1>7, Zenon DEF IsView
<1>9. QED
  BY <1>4, <1>5, <1>8 DEF ViewCreates

LEMMA DropMaps ==
  ASSUME NEW d \in Seq(Def), Unique(d), NEW e, NEW v, NEW w, IsView(d, v), IsView(e, w),
         NEW i \in LiveIds(d), e = [d EXCEPT ![i] = [d[i] EXCEPT !.live = FALSE]]
  PROVE  ViewDrops(d, v, w, d[i].name)
<1>1. i \in DOMAIN d /\ d[i] \in Def /\ d[i].name \in NamesOf(d)
  BY NameFacts DEF LiveIds
<1>2. DOMAIN e = DOMAIN d /\ ~ e[i].live /\ \A j \in DOMAIN d : j # i => e[j] = d[j]
  BY <1>1 DEF Def
<1>3. LiveIds(e) = LiveIds(d) \ {i} /\ \A j \in LiveIds(e) : e[j] = d[j]
  BY <1>2 DEF LiveIds
<1>4. \A j \in LiveIds(e) : d[j].name # d[i].name
  BY <1>3 DEF Unique
<1>5. \A m : m \in NamesOf(e) <=> m \in NamesOf(d) /\ m # d[i].name
  <2>1. NamesOf(e) = {e[j].name : j \in LiveIds(d) \ {i}}
    BY <1>3, Zenon DEF NamesOf
  <2>2. NamesOf(d) = {d[j].name : j \in LiveIds(d)}
    BY DEF NamesOf
  <2>3. ASSUME NEW m PROVE (\E j \in LiveIds(d) \ {i} : e[j].name = m)
                           <=> (\E j \in LiveIds(d) : d[j].name = m) /\ m # d[i].name
    BY <1>3, <1>4
  <2>4. ASSUME NEW m PROVE m \in NamesOf(e) <=> \E j \in LiveIds(d) \ {i} : e[j].name = m
    BY <2>1
  <2>5. ASSUME NEW m PROVE m \in NamesOf(d) <=> \E j \in LiveIds(d) : d[j].name = m
    BY <2>2
  <2>6. QED
    BY <2>3, <2>4, <2>5, Zenon
<1>6. NamesOf(e) = NamesOf(d) \ {d[i].name}
  BY <1>5
<1>7. ASSUME NEW m \in NamesOf(e) PROVE w[m] = v[m]
  <2>1. PICK j \in LiveIds(e) : e[j].name = m
    BY NameFacts
  <2>2. j \in LiveIds(d) /\ e[j] = d[j]
    BY <1>3, <2>1
  <2>3. w[e[j].name] = e[j].rows /\ v[d[j].name] = d[j].rows
    BY <2>1, <2>2, Zenon DEF IsView
  <2>4. QED
    BY <2>1, <2>2, <2>3
<1>8. v \in [NamesOf(d) -> SUBSET Calls] /\ w \in [NamesOf(e) -> SUBSET Calls]
  BY Zenon DEF IsView
<1>9. QED
  BY <1>1, <1>6, <1>7, <1>8 DEF ViewDrops

LEMMA ChangeMaps ==
  ASSUME NEW d \in Seq(Def), Unique(d), NEW e, NEW v, NEW w, IsView(d, v), IsView(e, w),
         NEW i \in LiveIds(d), e = [d EXCEPT ![i] = WithRow(d[i])]
  PROVE  ViewChanges(d, v, w, d[i].name)
<1>1. i \in DOMAIN d /\ d[i] \in Def /\ d[i].name \in NamesOf(d)
  BY NameFacts DEF LiveIds
<1>2. DOMAIN e = DOMAIN d /\ \A j \in DOMAIN d : j # i => e[j] = d[j]
  BY <1>1
<1>3. e[i].name = d[i].name /\ e[i].live = d[i].live /\ e[i].rows = d[i].rows \cup {commits + 1}
  BY <1>1 DEF WithRow, Def
<1>4. LiveIds(e) = LiveIds(d) /\ \A j \in LiveIds(d) : e[j].name = d[j].name
  BY <1>2, <1>3 DEF LiveIds
<1>5. \A j \in LiveIds(d) : j # i => d[j].name # d[i].name /\ e[j] = d[j]
  BY <1>2 DEF Unique, LiveIds
<1>6. NamesOf(e) = NamesOf(d)
  BY <1>4 DEF NamesOf
<1>7. ASSUME NEW j \in LiveIds(d) PROVE w[d[j].name] = e[j].rows /\ v[d[j].name] = d[j].rows
  <2>1. w[e[j].name] = e[j].rows /\ v[d[j].name] = d[j].rows
    BY <1>4, Zenon DEF IsView
  <2>2. QED
    BY <1>4, <2>1
<1>8. w[d[i].name] = v[d[i].name] \cup {commits + 1}
  BY <1>3, <1>7
<1>9. ASSUME NEW m \in NamesOf(d), m # d[i].name PROVE w[m] = v[m]
  <2>1. PICK j \in LiveIds(d) : d[j].name = m
    BY NameFacts
  <2>2. e[j] = d[j]
    BY <1>5, <1>9, <2>1
  <2>3. QED
    BY <1>7, <2>1, <2>2
<1>10. v \in [NamesOf(d) -> SUBSET Calls] /\ w \in [NamesOf(d) -> SUBSET Calls]
  BY <1>6, Zenon DEF IsView
<1>11. QED
  BY <1>1, <1>8, <1>9, <1>10 DEF ViewChanges

LEMMA SerialStep == ASSUME IInv, IInv', Alone, ~ nested, Next PROVE Tables!Next \/ View' = View
<1>1. IsView(disk, View) /\ IsView(disk', View')
  BY Views
<1>2. disk \in Seq(Def) /\ Unique(disk)
  BY DEF IInv
<1>3. CASE Created(disk, disk')
  <2>1. PICK n \in Names : /\ n \notin NamesOf(disk)
                           /\ disk' = Append(disk, [name |-> n, live |-> TRUE, rows |-> {}])
    BY <1>3 DEF Created
  <2>2. ViewCreates(disk, View, View', n)
    BY <1>1, <1>2, <2>1, CreateMaps, Zenon
  <2>3. QED
    BY <2>1, <2>2 DEF ViewCreates, Tables!Create, Tables!Next
<1>4. CASE Dropped(disk, disk')
  <2>1. PICK i \in LiveIds(disk) : disk' = [disk EXCEPT ![i] = [disk[i] EXCEPT !.live = FALSE]]
    BY <1>4 DEF Dropped
  <2>2. ViewDrops(disk, View, View', disk[i].name)
    BY <1>1, <1>2, <2>1, DropMaps, Zenon
  <2>3. QED
    BY <2>2 DEF ViewDrops, Tables!Drop, Tables!Next
<1>5. CASE Changed(disk, disk') /\ commits < MaxCommits
  <2>1. PICK i \in LiveIds(disk) : disk' = [disk EXCEPT ![i] = WithRow(disk[i])]
    BY <1>5 DEF Changed
  <2>2. ViewChanges(disk, View, View', disk[i].name)
    BY <1>1, <1>2, <2>1, ChangeMaps, Zenon
  <2>3. commits \in Nat /\ commits + 1 \in Calls
    BY <1>5, BoundsAssumption DEF IInv, Calls
  <2>4. ASSUME NEW m \in DOMAIN View PROVE commits + 1 \notin View[m]
    <3>1. PICK j \in LiveIds(disk) : disk[j].name = m
      BY <2>2, NameFacts DEF ViewChanges
    <3>2. View[m] = disk[j].rows /\ j \in DOMAIN disk
      BY <1>1, <3>1 DEF IsView, LiveIds
    <3>3. disk[j].rows \subseteq 1..commits
      BY <3>2, Zenon DEF Alone
    <3>4. QED
      BY <2>3, <3>2, <3>3
  <2>5. QED
    BY <2>2, <2>3, <2>4 DEF ViewChanges, Tables!Write, Tables!Next
<1>6. CASE disk' = disk
  BY <1>6 DEF View, NamesOf, Loaded, LiveIds
<1>7. QED
  BY <1>3, <1>4, <1>5, <1>6, OneCall, Zenon

\* Calls take effect one after the other, all or nothing, each on what the one before left, for
\* any number of tables and calls, as long as predicates only look at rows.
THEOREM SerialCalls == Spec => Serial
<1>1. Init => Alone
  BY DEF Init, Alone
<1>2. ASSUME IInv, Alone, [Next]_vars PROVE Alone'
  <2>1. CASE nested
    BY <1>2, <2>1 DEF Next, vars, Alone, CreateTable, DropTable, Insert, Begin, Finish, Abort
  <2>2. CASE ~ nested /\ Next
    BY <1>2, <2>2, OneCall
  <2>3. CASE UNCHANGED vars
    BY <1>2, <2>3 DEF vars, Alone, Clone, Loaded, NamesOf, LiveIds
  <2>4. QED
    BY <1>2, <2>1, <2>2, <2>3
<1>3. ASSUME IInv, IInv', Alone, [Next]_vars PROVE [nested \/ Tables!Next]_View
  <2>1. CASE UNCHANGED vars
    BY <2>1 DEF vars, View, NamesOf, Loaded, LiveIds
  <2>2. QED
    BY <1>3, <2>1, SerialStep
<1>4. QED
  BY <1>1, <1>2, <1>3, Invariance, PTL DEF Spec, Serial
=============================================================================
