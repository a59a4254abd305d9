---------------------------- MODULE AtomicSave ----------------------------
(***************************************************************************)
(* Save, SaveAs and Open on one path (database.go): atomicWriteFile and    *)
(* the file system under it, for several processes that work on the same   *)
(* file, and crashes of the machine.                                       *)
(*                                                                         *)
(* A file is an inode that the path refers to.  What a process wrote or    *)
(* renamed is seen by the others at once, and reaches the disk when it is  *)
(* synced, or at any time before, in part or as a whole.  Each Save writes *)
(* a new inode: they are numbered by the Save calls, 0 is "no file".       *)
(*                                                                         *)
(* Two temporary files never have the same random name.                    *)
(***************************************************************************)
EXTENDS Naturals, FiniteSets

CONSTANTS Procs,     \* processes
          MaxSaves   \* bound: calls of Save and SaveAs

ASSUME SavesAssumption == MaxSaves \in Nat

VARIABLES data,     \* of each inode: "none", "empty", "part" or "whole"
          synced,   \* inodes whose data is on disk
          file,     \* the inode of the path
          may,      \* the inodes that the directory on disk may have there
          temps,    \* inodes with a temporary name
          pc,       \* what each process is doing
          num,      \* the inode it does it with
          seen,     \* what Open has read of its inode
          last,     \* number of the last Save
          answers   \* what each Save returned

vars == <<data, synced, file, may, temps, pc, num, seen, last, answers>>

Inodes == 0..MaxSaves
Saves == 1..MaxSaves
Stages == {"idle", "read", "read2", "write", "sync", "rename", "syncdir", "done", "failed"}

Init == /\ data = [i \in Inodes |-> "none"]
        /\ synced = {0}
        /\ file = 0 /\ may = {0} /\ temps = {}
        /\ pc = [p \in Procs |-> "idle"]
        /\ num = [p \in Procs |-> 0]
        /\ seen = [p \in Procs |-> {}]
        /\ last = 0
        /\ answers = [i \in Saves |-> "none"]

-----------------------------------------------------------------------------
(* Open *)

\* OpenWithOptions: the file is opened once, then read piece by piece while others save.
OpenFile(p) == /\ pc[p] = "idle" /\ file # 0
               /\ pc' = [pc EXCEPT ![p] = "read"]
               /\ num' = [num EXCEPT ![p] = file]
               /\ seen' = [seen EXCEPT ![p] = {}]
               /\ UNCHANGED <<data, synced, file, may, temps, last, answers>>

ReadPart(p) == /\ pc[p] \in {"read", "read2"}
               /\ seen' = [seen EXCEPT ![p] = @ \cup {data[num[p]]}]
               /\ pc' = [pc EXCEPT ![p] = IF @ = "read" THEN "read2" ELSE "idle"]
               /\ UNCHANGED <<data, synced, file, may, temps, num, last, answers>>

-----------------------------------------------------------------------------
(* atomicWriteFile, step by step *)

\* Mutant of Begin: the data goes into the file itself.
BeginInPlace(p) ==
  /\ pc[p] = "idle" /\ last < MaxSaves
  /\ last' = last + 1
  /\ num' = [num EXCEPT ![p] = last + 1]
  /\ data' = [data EXCEPT ![last + 1] = "empty"]
  /\ file' = last + 1
  /\ pc' = [pc EXCEPT ![p] = "write"]
  /\ UNCHANGED <<synced, may, temps, seen, answers>>

\* targetMode, MkdirAll, CreateTemp and Chmod.  A call that fails before it has its temporary
\* file changes nothing, and is no step.
Begin(p) ==
  /\ pc[p] = "idle" /\ last < MaxSaves
  /\ last' = last + 1
  /\ num' = [num EXCEPT ![p] = last + 1]
  /\ data' = [data EXCEPT ![last + 1] = "empty"]
  /\ temps' = temps \cup {last + 1}
  /\ pc' = [pc EXCEPT ![p] = "write"]
  /\ UNCHANGED <<synced, file, may, seen, answers>>

WritePart(p) == /\ pc[p] = "write" /\ data[num[p]] = "empty"
                /\ data' = [data EXCEPT ![num[p]] = "part"]
                /\ UNCHANGED <<synced, file, may, temps, pc, num, seen, last, answers>>

Write(p) == /\ pc[p] = "write"
            /\ data' = [data EXCEPT ![num[p]] = "whole"]
            /\ pc' = [pc EXCEPT ![p] = "sync"]
            /\ UNCHANGED <<synced, file, may, temps, num, seen, last, answers>>

\* Mutant of Sync: Close is taken for a Sync.
SyncSkipped(p) == /\ pc[p] = "sync"
                  /\ pc' = [pc EXCEPT ![p] = "rename"]
                  /\ UNCHANGED <<data, synced, file, may, temps, num, seen, last, answers>>

\* temp.Sync and temp.Close
Sync(p) == /\ pc[p] = "sync"
           /\ synced' = synced \cup {num[p]}
           /\ pc' = [pc EXCEPT ![p] = "rename"]
           /\ UNCHANGED <<data, file, may, temps, num, seen, last, answers>>

Rename(p) == /\ pc[p] = "rename"
             /\ file' = num[p]
             /\ may' = may \cup {num[p]}
             /\ temps' = temps \ {num[p]}
             /\ pc' = [pc EXCEPT ![p] = "syncdir"]
             /\ UNCHANGED <<data, synced, num, seen, last, answers>>

SyncDir(p) == /\ pc[p] = "syncdir"
              /\ may' = {file}
              /\ pc' = [pc EXCEPT ![p] = "done"]
              /\ UNCHANGED <<data, synced, file, temps, num, seen, last, answers>>

\* Mutant of SyncDirIgnored: the error is returned.
SyncDirFails(p) == /\ pc[p] = "syncdir"
                   /\ pc' = [pc EXCEPT ![p] = "failed"]
                   /\ UNCHANGED <<data, synced, file, may, temps, num, seen, last, answers>>

\* The directory cannot be opened or synced: no error of these is looked at.
SyncDirIgnored(p) == /\ pc[p] = "syncdir"
                     /\ pc' = [pc EXCEPT ![p] = "done"]
                     /\ UNCHANGED <<data, synced, file, may, temps, num, seen, last, answers>>

\* Write, Sync, Close or Rename returns an error.
Fail(p) == /\ pc[p] \in {"write", "sync", "rename"}
           /\ pc' = [pc EXCEPT ![p] = "failed"]
           /\ UNCHANGED <<data, synced, file, may, temps, num, seen, last, answers>>

\* Mutant of Return: the temporary file of a call that failed stays behind.
ReturnLeaving(p) ==
  /\ pc[p] \in {"done", "failed"}
  /\ answers' = [answers EXCEPT ![num[p]] = IF pc[p] = "done" THEN "ok" ELSE "failed"]
  /\ pc' = [pc EXCEPT ![p] = "idle"]
  /\ UNCHANGED <<data, synced, file, may, temps, num, seen, last>>

\* Mutant of Return: a call that failed waits to try again.
ReturnDone(p) ==
  /\ pc[p] = "done"
  /\ temps' = temps \ {num[p]}
  /\ answers' = [answers EXCEPT ![num[p]] = "ok"]
  /\ pc' = [pc EXCEPT ![p] = "idle"]
  /\ UNCHANGED <<data, synced, file, may, num, seen, last>>

\* The deferred Remove, and what Save or SaveAs returns.
Return(p) ==
  /\ pc[p] \in {"done", "failed"}
  /\ temps' = temps \ {num[p]}
  /\ answers' = [answers EXCEPT ![num[p]] = IF pc[p] = "done" THEN "ok" ELSE "failed"]
  /\ pc' = [pc EXCEPT ![p] = "idle"]
  /\ UNCHANGED <<data, synced, file, may, num, seen, last>>

-----------------------------------------------------------------------------

\* The machine goes down: of data that was not synced any part is left, and the directory is
\* one of those that may be on disk.  Temporary files that are left behind are never looked at.
Crash == /\ \E torn \in SUBSET (0..last \ synced) :
              data' = [i \in Inodes |-> IF i \in torn THEN "part" ELSE data[i]]
         /\ synced' = 0..last
         /\ file' \in may
         /\ may' = {file'}
         /\ temps' = {}
         /\ pc' = [p \in Procs |-> "idle"]
         /\ seen' = [p \in Procs |-> {}]
         /\ UNCHANGED <<num, last, answers>>

Save(p) == \/ Begin(p) \/ WritePart(p) \/ Write(p) \/ Sync(p) \/ Rename(p)
           \/ SyncDir(p) \/ SyncDirIgnored(p) \/ Fail(p) \/ Return(p)

Next == \/ \E p \in Procs : OpenFile(p) \/ ReadPart(p) \/ Save(p)
        \/ Crash

Spec == Init /\ [][Next]_vars

\* Fairness: a call that has begun goes on.  atomicWriteFile is sequential code without a loop
\* or a lock, and system calls return; nobody has to call Save, and the machine need not stay up.
Proceed(p) == WritePart(p) \/ Write(p) \/ Sync(p) \/ Rename(p) \/ SyncDir(p)
              \/ SyncDirIgnored(p) \/ Fail(p) \/ Return(p)
FairSpec == Spec /\ \A p \in Procs : WF_vars(Proceed(p))

-----------------------------------------------------------------------------
(* What must hold *)

TypeOK == /\ data \in [Inodes -> {"none", "empty", "part", "whole"}]
          /\ synced \subseteq Inodes /\ temps \subseteq Saves
          /\ may \subseteq Inodes /\ file \in may
          /\ pc \in [Procs -> Stages] /\ num \in [Procs -> Inodes]
          /\ seen \in [Procs -> SUBSET {"none", "empty", "part", "whole"}]
          /\ last \in Inodes
          /\ answers \in [Saves -> {"none", "ok", "failed"}]

\* "sync to disk before atomically renaming" (README): whatever the path refers to, now or
\* after a crash, is some Save's data as a whole and is on disk.
NeverTorn == \A i \in may : i # 0 => data[i] = "whole" /\ i \in synced

\* Open never gets a mixture: the file it reads stays as it is while others save.
ReadsWhole == \A p \in Procs : seen[p] \subseteq {"whole"}

\* Every call removes its temporary file, however it ends.
Saving == {"write", "sync", "rename", "syncdir", "done", "failed"}
TempsOwned == \A i \in temps : \E p \in Procs : pc[p] \in Saving /\ num[p] = i

\* "Never return nil or report success if data was not written to disk" (CONTRIBUTING.md):
\* when a Save has reported success, its version is the one that a crash leaves.
ReportedOnDisk == \A v \in Saves : answers[v] = "ok" /\ file = v => may = {v}

\* Every Save comes to an end, whatever fails in it and whoever else saves: it returns to its
\* caller, or the machine goes down.
InCall(v) == \E p \in Procs : pc[p] \in Saving /\ num[p] = v
SavesEnd == \A v \in Saves : InCall(v) ~> ~ InCall(v)

\* The path behaves as a file of whole versions: a Save that succeeds has replaced it, one that
\* fails never has, and a crash goes back no further than the last synced directory.
Torn == MaxSaves + 1
Whole(i) == i = 0 \/ data[i] = "whole"
Content == IF Whole(file) THEN file ELSE Torn
Kept == {IF Whole(i) /\ i \in synced \cup {0} THEN i ELSE Torn : i \in may}
Running == {v \in Saves : InCall(v)}
Installed == {v \in Saves : \/ answers[v] = "ok"
                            \/ \E p \in Procs : pc[p] \in {"syncdir", "done"} /\ num[p] = v}
Path == INSTANCE SavedFile
          WITH Versions <- Saves, content <- Content, kept <- Kept,
               running <- Running, installed <- Installed, answers <- answers
SavesFile == Path!Spec
=============================================================================
