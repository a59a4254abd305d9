----------------------------- MODULE SavedFile -----------------------------
(***************************************************************************)
(* What Save and SaveAs promise of the file they write: it is always some  *)
(* saved version as a whole, a Save that fails leaves it alone, and a      *)
(* crash brings back no version from before the last one that was made     *)
(* safe.                                                                   *)
(***************************************************************************)
EXTENDS Naturals

CONSTANT Versions       \* Save calls, each with a version of its own; 0 is "no file"

VARIABLES content,      \* the version the file reads as
          kept,         \* those it may read as after a crash
          running,      \* Save calls that have not returned
          installed,    \* those that have replaced the file
          answers       \* what each Save returned

vars == <<content, kept, running, installed, answers>>

Init == /\ content = 0 /\ kept = {0}
        /\ running = {} /\ installed = {}
        /\ answers = [v \in Versions |-> "none"]

Begin(v) == /\ v \notin running /\ answers[v] = "none"
            /\ running' = running \cup {v}
            /\ UNCHANGED <<content, kept, installed, answers>>

\* The new version, as a whole, takes the place of the old one; a crash may still undo it.
Replace(v) == /\ v \in running \ installed
              /\ content' = v
              /\ kept' = kept \cup {v}
              /\ installed' = installed \cup {v}
              /\ UNCHANGED <<running, answers>>

\* The directory is on disk: there is no way back.
Confirm == /\ kept' = {content}
           /\ UNCHANGED <<content, running, installed, answers>>

Answer(v) == /\ v \in running
             /\ answers' = [answers EXCEPT ![v] = IF v \in installed THEN "ok" ELSE "failed"]
             /\ running' = running \ {v}
             /\ UNCHANGED <<content, kept, installed>>

Crash == /\ content' \in kept
         /\ kept' = {content'}
         /\ running' = {}
         /\ installed' = installed \ running
         /\ UNCHANGED answers

Next == \/ \E v \in Versions : Begin(v) \/ Replace(v) \/ Answer(v)
        \/ Confirm
        \/ Crash

Spec == Init /\ [][Next]_vars
=============================================================================
