----------------------------- MODULE AtomicFile -----------------------------
(***************************************************************************)
(* What ConfigController.Save promises of the configuration file           *)
(* (reloader.go:89-122), without the backup and the temporary file that    *)
(* keep the promise: whoever reads the file finds one whole configuration, *)
(* a save replaces it in one step, and reports success when it has         *)
(* replaced it and an error when it has not.  A process that dies in a     *)
(* save reports nothing and has replaced it or not.                        *)
(***************************************************************************)

CONSTANT Content    \* whole configurations

VARIABLES content,  \* what a reader of the file finds
          wanted,   \* what the save under way is to write
          phase,    \* idle, asked or replaced
          result    \* what the last save has reported

vars == <<content, wanted, phase, result>>

Init == /\ content \in Content
        /\ wanted \in Content
        /\ phase = "idle"
        /\ result = "none"

Ask == /\ phase = "idle"
       /\ phase' = "asked"
       /\ wanted' \in Content
       /\ result' = "none"
       /\ UNCHANGED content

Replace == /\ phase = "asked"
           /\ phase' = "replaced"
           /\ content' = wanted
           /\ UNCHANGED <<wanted, result>>

Report == /\ phase # "idle"
          /\ phase' = "idle"
          /\ result' = IF phase = "replaced" THEN "ok" ELSE "error"
          /\ UNCHANGED <<content, wanted>>

Die == /\ phase # "idle"
       /\ phase' = "idle"
       /\ UNCHANGED <<content, wanted, result>>

\* Anybody may edit the file, at any time.
Edit == /\ content' \in Content
        /\ UNCHANGED <<wanted, phase, result>>

Next == Ask \/ Replace \/ Report \/ Die \/ Edit

Spec == Init /\ [][Next]_vars
=============================================================================
