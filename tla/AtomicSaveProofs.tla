-------------------------- MODULE AtomicSaveProofs --------------------------
(***************************************************************************)
(* What holds of AtomicSave for every number of processes and of Saves.    *)
(***************************************************************************)
EXTENDS AtomicSave, TLAPS

-----------------------------------------------------------------------------
(* The inductive invariant *)

\* Inodes that no Save has had yet.
FreshOK == \A i \in Saves : i > last => /\ i \notin synced /\ i \notin may /\ i \notin temps
                                        /\ answers[i] = "none"

\* A Save that has not returned works on an inode of its own, which the path does not have
\* until it is renamed, and then has as a whole and on disk.
SavingOK(p) == pc[p] \in Saving =>
                 /\ num[p] \in Saves /\ num[p] <= last
                 /\ answers[num[p]] = "none"
                 /\ \A q \in Procs : pc[q] \in Saving /\ num[q] = num[p] => q = p
                 /\ pc[p] \in {"write", "sync", "rename", "failed"} => num[p] \notin may
                 /\ pc[p] \in {"sync", "rename"} => data[num[p]] = "whole"
                 /\ pc[p] = "rename" => num[p] \in synced

\* What Open reads was the path's once, and is written no more.
ReadingOK(p) == pc[p] \in {"read", "read2"} => num[p] <= last /\ data[num[p]] = "whole"

IInv == /\ TypeOK
        /\ NeverTorn /\ ReadsWhole /\ TempsOwned
        /\ FreshOK
        /\ \A p \in Procs : SavingOK(p) /\ ReadingOK(p)

LEMMA Numbers == /\ MaxSaves \in Nat /\ 0 \in Inodes /\ Saves \subseteq Inodes
                 /\ \A i \in Inodes : i # 0 => i \in Saves
                 /\ \A i \in Inodes : i < MaxSaves => i + 1 \in Saves
                 /\ \A i \in Inodes : i \in Nat /\ ~ i + 1 <= i
  BY SavesAssumption DEF Inodes, Saves

LEMMA InitInv == Init => IInv
  BY Numbers DEF Init, IInv, TypeOK, NeverTorn, ReadsWhole, TempsOwned, FreshOK, SavingOK,
     ReadingOK, Saving, Stages

-----------------------------------------------------------------------------
(* One lemma per operation *)

LEMMA OpenStep == ASSUME IInv, NEW p \in Procs, OpenFile(p) \/ ReadPart(p) PROVE IInv'
<1>1. CASE OpenFile(p)
  <2>1. TypeOK'
    BY <1>1 DEF IInv, OpenFile, TypeOK, Stages
  <2>2. NeverTorn' /\ ReadsWhole' /\ TempsOwned' /\ FreshOK'
    BY <1>1 DEF IInv, OpenFile, TypeOK, NeverTorn, ReadsWhole, TempsOwned, FreshOK, Saving
  <2>3. file <= last /\ data[file] = "whole"
    BY <1>1, Numbers DEF IInv, OpenFile, TypeOK, NeverTorn, FreshOK, Inodes
  <2>4. ASSUME NEW q \in Procs PROVE SavingOK(q)' /\ ReadingOK(q)'
    BY <1>1, <2>3 DEF IInv, OpenFile, TypeOK, SavingOK, ReadingOK, Saving
  <2>5. QED
    BY <2>1, <2>2, <2>4 DEF IInv
<1>2. CASE ReadPart(p)
  <2>1. TypeOK'
    BY <1>2 DEF IInv, ReadPart, TypeOK, Stages
  <2>2. NeverTorn' /\ ReadsWhole' /\ TempsOwned' /\ FreshOK'
    BY <1>2 DEF IInv, ReadPart, TypeOK, NeverTorn, ReadsWhole, ReadingOK, TempsOwned, FreshOK, Saving
  <2>3. ASSUME NEW q \in Procs PROVE SavingOK(q)' /\ ReadingOK(q)'
    BY <1>2 DEF IInv, ReadPart, TypeOK, SavingOK, ReadingOK, Saving
  <2>4. QED
    BY <2>1, <2>2, <2>3 DEF IInv
<1>3. QED
  BY <1>1, <1>2

LEMMA BeginStep == ASSUME IInv, NEW p \in Procs, Begin(p) PROVE IInv'
<1>1. /\ last + 1 \in Saves /\ last + 1 \in Inodes /\ last \in Nat
      /\ last + 1 # 0 /\ ~ last + 1 <= last
  BY Numbers DEF IInv, Begin, TypeOK, Saves
<1>2. last + 1 \notin synced /\ last + 1 \notin may /\ answers[last + 1] = "none"
  BY <1>1 DEF IInv, FreshOK
<1>3. TypeOK'
  BY <1>1 DEF IInv, Begin, TypeOK, Stages
<1>4. NeverTorn' /\ ReadsWhole'
  BY <1>1, <1>2 DEF IInv, Begin, TypeOK, NeverTorn, ReadsWhole
<1>5. TempsOwned'
  BY <1>1 DEF IInv, Begin, TypeOK, TempsOwned, Saving
<1>6. FreshOK'
  BY <1>1 DEF IInv, Begin, TypeOK, FreshOK, Saves
<1>7. ASSUME NEW q \in Procs PROVE SavingOK(q)' /\ ReadingOK(q)'
  <2>1. CASE q = p
    BY <1>1, <1>2, <2>1 DEF IInv, Begin, TypeOK, SavingOK, ReadingOK, Saving
  <2>2. CASE q # p
    BY <1>1, <1>2, <2>2 DEF IInv, Begin, TypeOK, SavingOK, ReadingOK, Saving, Inodes
  <2>3. QED
    BY <2>1, <2>2
<1>8. QED
  BY <1>3, <1>4, <1>5, <1>6, <1>7 DEF IInv

LEMMA WriteStep == ASSUME IInv, NEW p \in Procs, WritePart(p) \/ Write(p) PROVE IInv'
<1>1. num[p] \in Saves /\ num[p] \in Inodes /\ num[p] \notin may /\ pc[p] = "write"
  BY Numbers DEF IInv, WritePart, Write, SavingOK, Saving
<1>2. TypeOK'
  BY <1>1 DEF IInv, WritePart, Write, TypeOK, Stages
<1>3. NeverTorn' /\ ReadsWhole' /\ TempsOwned' /\ FreshOK'
  BY <1>1 DEF IInv, WritePart, Write, TypeOK, NeverTorn, ReadsWhole, TempsOwned, FreshOK, Saving
<1>4. ASSUME NEW q \in Procs PROVE SavingOK(q)' /\ ReadingOK(q)'
  BY <1>1 DEF IInv, WritePart, Write, TypeOK, SavingOK, ReadingOK, Saving
<1>5. QED
  BY <1>2, <1>3, <1>4 DEF IInv

LEMMA SyncStep == ASSUME IInv, NEW p \in Procs, Sync(p) PROVE IInv'
<1>1. num[p] \in Saves /\ num[p] \in Inodes /\ num[p] <= last
  BY Numbers DEF IInv, Sync, SavingOK, Saving
<1>2. TypeOK'
  BY <1>1 DEF IInv, Sync, TypeOK, Stages
<1>3. NeverTorn' /\ ReadsWhole' /\ TempsOwned' /\ FreshOK'
  BY <1>1, Numbers DEF IInv, Sync, TypeOK, NeverTorn, ReadsWhole, TempsOwned, FreshOK, Saving, Inodes, Saves
<1>4. ASSUME NEW q \in Procs PROVE SavingOK(q)' /\ ReadingOK(q)'
  BY <1>1 DEF IInv, Sync, TypeOK, SavingOK, ReadingOK, Saving
<1>5. QED
  BY <1>2, <1>3, <1>4 DEF IInv

LEMMA RenameStep == ASSUME IInv, NEW p \in Procs, Rename(p) PROVE IInv'
<1>1. /\ num[p] \in Saves /\ num[p] \in Inodes /\ num[p] <= last
      /\ data[num[p]] = "whole" /\ num[p] \in synced
  BY Numbers DEF IInv, Rename, SavingOK, Saving
<1>2. TypeOK'
  BY <1>1 DEF IInv, Rename, TypeOK, Stages
<1>3. NeverTorn' /\ ReadsWhole' /\ TempsOwned' /\ FreshOK'
  BY <1>1, Numbers DEF IInv, Rename, TypeOK, NeverTorn, ReadsWhole, TempsOwned, FreshOK, Saving, Inodes, Saves
<1>4. ASSUME NEW q \in Procs PROVE SavingOK(q)' /\ ReadingOK(q)'
  BY <1>1 DEF IInv, Rename, TypeOK, SavingOK, ReadingOK, Saving
<1>5. QED
  BY <1>2, <1>3, <1>4 DEF IInv

LEMMA LateStep ==
  ASSUME IInv, NEW p \in Procs, SyncDir(p) \/ SyncDirIgnored(p) \/ Fail(p)
  PROVE  IInv'
<1>1. TypeOK'
  BY DEF IInv, SyncDir, SyncDirIgnored, Fail, TypeOK, Stages
<1>2. NeverTorn' /\ ReadsWhole' /\ TempsOwned' /\ FreshOK'
  BY DEF IInv, SyncDir, SyncDirIgnored, Fail, TypeOK, NeverTorn, ReadsWhole, TempsOwned, FreshOK, Saving
<1>3. ASSUME NEW q \in Procs PROVE SavingOK(q)' /\ ReadingOK(q)'
  BY DEF IInv, SyncDir, SyncDirIgnored, Fail, TypeOK, SavingOK, ReadingOK, Saving
<1>4. QED
  BY <1>1, <1>2, <1>3 DEF IInv

LEMMA ReturnStep == ASSUME IInv, NEW p \in Procs, Return(p) PROVE IInv'
<1>1. num[p] \in Saves /\ num[p] <= last /\ last \in Nat
  BY Numbers DEF IInv, Return, TypeOK, SavingOK, Saving
<1>2. TypeOK'
  BY <1>1 DEF IInv, Return, TypeOK, Stages
<1>3. NeverTorn' /\ ReadsWhole' /\ TempsOwned'
  BY <1>1 DEF IInv, Return, TypeOK, NeverTorn, ReadsWhole, TempsOwned, Saving
<1>4. FreshOK'
  BY <1>1, Numbers DEF IInv, Return, TypeOK, FreshOK, Saves
<1>5. ASSUME NEW q \in Procs PROVE SavingOK(q)' /\ ReadingOK(q)'
  BY <1>1 DEF IInv, Return, TypeOK, SavingOK, ReadingOK, Saving
<1>6. QED
  BY <1>2, <1>3, <1>4, <1>5 DEF IInv

LEMMA CrashStep == ASSUME IInv, Crash PROVE IInv'
<1>1. PICK torn \in SUBSET (0..last \ synced) :
        data' = [i \in Inodes |-> IF i \in torn THEN "part" ELSE data[i]]
  BY DEF Crash
<1>2. \A i \in may : i \in Inodes /\ i <= last /\ (i # 0 => data'[i] = "whole")
  BY <1>1, Numbers DEF IInv, TypeOK, NeverTorn, FreshOK, Inodes
<1>3. TypeOK'
  <2>1. data' \in [Inodes -> {"none", "empty", "part", "whole"}]
    BY <1>1 DEF IInv, TypeOK
  <2>2. 0..last \subseteq Inodes
    BY SavesAssumption DEF IInv, TypeOK, Inodes
  <2>3. file' \in may' /\ may' \subseteq Inodes
    BY <1>2 DEF Crash
  <2>4. pc' \in [Procs -> Stages] /\ seen' \in [Procs -> SUBSET {"none", "empty", "part", "whole"}]
    BY DEF Crash, Stages
  <2>5. synced' \subseteq Inodes /\ temps' \subseteq Saves
    BY <2>2 DEF Crash
  <2>6. /\ num' \in [Procs -> Inodes] /\ last' \in Inodes
        /\ answers' \in [Saves -> {"none", "ok", "failed"}]
    BY DEF IInv, TypeOK, Crash
  <2>7. QED
    BY <2>1, <2>3, <2>4, <2>5, <2>6 DEF TypeOK
<1>4. NeverTorn' /\ ReadsWhole' /\ TempsOwned'
  <2>1. \A i \in may : i \in 0..last
    BY <1>2, Numbers DEF IInv, TypeOK, Inodes
  <2>2. NeverTorn'
    BY <1>2, <2>1 DEF Crash, NeverTorn
  <2>3. ReadsWhole' /\ TempsOwned'
    BY DEF Crash, ReadsWhole, TempsOwned
  <2>4. QED
    BY <2>2, <2>3
<1>5. FreshOK'
  BY <1>2, Numbers DEF IInv, Crash, TypeOK, FreshOK, Saves, Inodes
<1>6. ASSUME NEW q \in Procs PROVE SavingOK(q)' /\ ReadingOK(q)'
  BY DEF Crash, SavingOK, ReadingOK, Saving
<1>7. QED
  BY <1>3, <1>4, <1>5, <1>6 DEF IInv

LEMMA StepInv == IInv /\ [Next]_vars => IInv'
<1>1. SUFFICES ASSUME IInv, [Next]_vars PROVE IInv'
  OBVIOUS
<1>2. ASSUME NEW p \in Procs, OpenFile(p) \/ ReadPart(p) \/ Save(p) PROVE IInv'
  BY <1>1, <1>2, OpenStep, BeginStep, WriteStep, SyncStep, RenameStep, LateStep, ReturnStep DEF Save
<1>3. ASSUME UNCHANGED vars PROVE IInv'
  BY <1>1, <1>3 DEF vars, IInv, TypeOK, NeverTorn, ReadsWhole, TempsOwned, FreshOK, SavingOK, ReadingOK
<1>4. QED
  BY <1>1, <1>2, <1>3, CrashStep DEF Next

\* The inductive invariant, of which the theorems below are consequences.
THEOREM Invariance == Spec => []IInv
  BY InitInv, StepInv, PTL DEF Spec

\* Every state has its type, for any number of processes and of Saves.
THEOREM TypeCorrect == Spec => []TypeOK
<1>1. IInv => TypeOK
  BY DEF IInv
<1>2. QED
  BY <1>1, Invariance, PTL

\* atomicWriteFile syncs before it renames: on disk the path never refers to data that is torn
\* or could become so.
THEOREM Untorn == Spec => []NeverTorn
<1>1. IInv => NeverTorn
  BY DEF IInv
<1>2. QED
  BY <1>1, Invariance, PTL

\* OpenWithOptions reads one whole version, whoever saves while it reads.
THEOREM NoMixture == Spec => []ReadsWhole
<1>1. IInv => ReadsWhole
  BY DEF IInv
<1>2. QED
  BY <1>1, Invariance, PTL

\* No call of atomicWriteFile leaves its temporary file behind.
THEOREM NoLitter == Spec => []TempsOwned
<1>1. IInv => TempsOwned
  BY DEF IInv
<1>2. QED
  BY <1>1, Invariance, PTL

-----------------------------------------------------------------------------
(* The path implements SavedFile *)

LEMMA Contents == IInv => Content = file /\ Kept = may
<1>1. SUFFICES ASSUME IInv PROVE Content = file /\ Kept = may
  OBVIOUS
<1>2. \A i \in may : Whole(i) /\ i \in synced \cup {0}
  BY <1>1 DEF IInv, NeverTorn, Whole
<1>3. Content = file
  BY <1>1, <1>2 DEF IInv, TypeOK, Content
<1>4. Kept = may
  BY <1>2 DEF Kept
<1>5. QED
  BY <1>3, <1>4

LEMMA ContentsNext == IInv' => (Content = file /\ Kept = may)'
  BY Contents, PTL

LEMMA InitMaps == Init => Path!Init
<1>1. SUFFICES ASSUME Init PROVE Path!Init
  OBVIOUS
<1>2. Content = 0 /\ Kept = {0}
  BY <1>1, InitInv, Contents DEF Init
<1>3. Running = {} /\ Installed = {}
  BY <1>1 DEF Init, Running, InCall, Installed, Saving
<1>4. QED
  BY <1>1, <1>2, <1>3 DEF Init, Path!Init

\* Steps that the users of the file do not see.
LEMMA HiddenSteps ==
  ASSUME IInv, IInv', NEW p \in Procs,
         \/ OpenFile(p) \/ ReadPart(p) \/ WritePart(p) \/ Write(p)
         \/ Sync(p) \/ SyncDirIgnored(p) \/ Fail(p)
  PROVE  UNCHANGED Path!vars
<1>1. file' = file /\ may' = may /\ answers' = answers
  BY DEF OpenFile, ReadPart, WritePart, Write, Sync, SyncDirIgnored, Fail
<1>2. \A q \in Procs : (pc'[q] \in Saving <=> pc[q] \in Saving)
                       /\ (pc[q] \in Saving => num'[q] = num[q])
                       /\ (pc'[q] \in {"syncdir", "done"} <=> pc[q] \in {"syncdir", "done"})
  BY DEF IInv, TypeOK, OpenFile, ReadPart, WritePart, Write, Sync, SyncDirIgnored, Fail, Saving
<1>3. Running' = Running
  BY <1>2 DEF Running, InCall
<1>4. Installed' = Installed
  BY <1>1, <1>2 DEF Installed, Saving
<1>5. QED
  BY <1>1, <1>3, <1>4, Contents, ContentsNext DEF Path!vars

LEMMA BeginMaps == ASSUME IInv, IInv', NEW p \in Procs, Begin(p)
                   PROVE  \E v \in Saves : Path!Begin(v)
<1>1. last + 1 \in Saves /\ last \in Nat /\ ~ last + 1 <= last
  BY Numbers DEF IInv, Begin, TypeOK, Saves
<1>2. answers[last + 1] = "none" /\ last + 1 \notin Running
  BY <1>1 DEF IInv, FreshOK, Running, InCall, SavingOK
<1>3. Running' = Running \cup {last + 1}
  BY <1>1 DEF IInv, TypeOK, Begin, Running, InCall, Saving
<1>4. Installed' = Installed
  BY DEF IInv, TypeOK, Begin, Installed
<1>5. UNCHANGED <<Content, Kept, answers>>
  BY Contents, ContentsNext DEF Begin
<1>6. Path!Begin(last + 1)
  BY <1>2, <1>3, <1>4, <1>5 DEF Path!Begin
<1>7. QED
  BY <1>1, <1>6

LEMMA RenameMaps == ASSUME IInv, IInv', NEW p \in Procs, Rename(p)
                    PROVE  \E v \in Saves : Path!Replace(v)
<1>1. num[p] \in Saves /\ answers[num[p]] = "none"
      /\ \A q \in Procs : pc[q] \in Saving /\ num[q] = num[p] => q = p
  BY DEF IInv, Rename, SavingOK, Saving
<1>2. num[p] \in Running \ Installed
  BY <1>1 DEF Rename, Running, InCall, Installed, Saving
<1>3. Content' = num[p] /\ Kept' = Kept \cup {num[p]}
  BY Contents, ContentsNext DEF Rename
<1>4. Running' = Running
  BY DEF IInv, TypeOK, Rename, Running, InCall, Saving
<1>5. Installed' = Installed \cup {num[p]}
  BY <1>1 DEF IInv, TypeOK, Rename, Installed
<1>6. Path!Replace(num[p])
  BY <1>2, <1>3, <1>4, <1>5 DEF Path!Replace, Rename
<1>7. QED
  BY <1>1, <1>6

LEMMA SyncDirMaps == ASSUME IInv, IInv', NEW p \in Procs, SyncDir(p)
                     PROVE  Path!Confirm
<1>1. Kept' = {Content} /\ Content' = Content
  BY Contents, ContentsNext DEF SyncDir
<1>2. Running' = Running
  BY DEF IInv, TypeOK, SyncDir, Running, InCall, Saving
<1>3. Installed' = Installed
  BY DEF IInv, TypeOK, SyncDir, Installed
<1>4. QED
  BY <1>1, <1>2, <1>3 DEF Path!Confirm, SyncDir

LEMMA ReturnMaps == ASSUME IInv, IInv', NEW p \in Procs, Return(p)
                    PROVE  \E v \in Saves : Path!Answer(v)
<1>1. num[p] \in Saves /\ answers[num[p]] = "none"
      /\ \A q \in Procs : pc[q] \in Saving /\ num[q] = num[p] => q = p
  BY DEF IInv, Return, SavingOK, Saving
<1>2. num[p] \in Running
  BY <1>1 DEF Return, Running, InCall, Saving
<1>3. num[p] \in Installed <=> pc[p] = "done"
  BY <1>1 DEF Return, Installed, Saving
<1>4. answers' = [answers EXCEPT ![num[p]] = IF num[p] \in Installed THEN "ok" ELSE "failed"]
  BY <1>3 DEF Return
<1>5. Running' = Running \ {num[p]}
  BY <1>1 DEF IInv, TypeOK, Return, Running, InCall, Saving
<1>6. Installed' = Installed
  BY <1>1, <1>3 DEF IInv, TypeOK, Return, Installed
<1>7. UNCHANGED <<Content, Kept>>
  BY Contents, ContentsNext DEF Return
<1>8. Path!Answer(num[p])
  BY <1>2, <1>4, <1>5, <1>6, <1>7 DEF Path!Answer
<1>9. QED
  BY <1>1, <1>8

LEMMA CrashMaps == ASSUME IInv, IInv', Crash PROVE Path!Crash
<1>1. Content' \in Kept /\ Kept' = {Content'}
  BY Contents, ContentsNext DEF Crash
<1>2. Running' = {}
  BY DEF Crash, Running, InCall, Saving
<1>3. Installed' = {v \in Saves : answers[v] = "ok"}
  BY DEF Crash, Installed
<1>4. \A v \in Running : answers[v] = "none"
  BY DEF IInv, Running, InCall, SavingOK
<1>5. \A v \in Installed \ Running : answers[v] = "ok"
  BY DEF Installed, Running, InCall, Saving
<1>6. Installed' = Installed \ Running
  BY <1>3, <1>4, <1>5 DEF Installed
<1>7. QED
  BY <1>1, <1>2, <1>6 DEF Path!Crash, Crash

\* Every step of atomicWriteFile, of its readers and of the machine is a step of a file of
\* whole versions, or is not seen through it: with any number of processes, errors and crashes.
THEOREM SavesWholeVersions == Spec => SavesFile
<1>1. IInv /\ IInv' /\ [Next]_vars => [Path!Next]_(Path!vars)
  <2>1. SUFFICES ASSUME IInv, IInv', [Next]_vars PROVE Path!Next \/ UNCHANGED Path!vars
    OBVIOUS
  <2>2. ASSUME NEW p \in Procs, OpenFile(p) \/ ReadPart(p) \/ Save(p)
        PROVE  Path!Next \/ UNCHANGED Path!vars
    BY <2>1, <2>2, HiddenSteps, BeginMaps, RenameMaps, SyncDirMaps, ReturnMaps DEF Save, Path!Next
  <2>3. ASSUME UNCHANGED vars PROVE UNCHANGED Path!vars
    BY <2>3 DEF vars, Path!vars, Content, Kept, Running, InCall, Installed, Whole
  <2>4. QED
    BY <2>1, <2>2, <2>3, CrashMaps DEF Next, Path!Next
<1>2. QED
  BY <1>1, Invariance, InitMaps, PTL DEF Spec, SavesFile, Path!Spec
=============================================================================
