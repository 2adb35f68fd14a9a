----------------------------- MODULE ConfigSave -----------------------------
(***************************************************************************)
(* A save of the configuration file (reloader.go:89-141): a backup of the  *)
(* file, a temporary file, a rename over it, and the removal of the oldest *)
(* backups, any of which may fail, with a process that may die between two *)
(* of them.  writeMu lets one save run at a time; others edit the file     *)
(* without it.                                                             *)
(*                                                                         *)
(* A content is the number of the save or edit that made it.  A backup has *)
(* the time of its save in its name, and backups are sorted as text: a     *)
(* stamp is the place of its name in that order.  It grows from save to    *)
(* save as long as the clock goes on in the same era; a clock that is set  *)
(* can go to an earlier or a later era, and a number of fewer digits can   *)
(* be text that comes before or after one of more.                         *)
(***************************************************************************)
EXTENDS Integers, FiniteSets, Sequences

CONSTANTS Keep,        \* maxConfigBackups, 5 in the code
          MaxSaves,
          MaxEdits,    \* edits by others
          MaxFails,    \* file operations that fail
          MaxCrashes,
          MaxSets      \* times the clock is set

ASSUME SaveAssumption == /\ Keep \in Nat \ {0}
                         /\ MaxSaves \in Nat /\ MaxEdits \in Nat /\ MaxFails \in Nat
                         /\ MaxCrashes \in Nat /\ MaxSets \in Nat

Content == 1..(1 + MaxSaves + MaxEdits)
Torn == 0       \* a file that was created and is not written, or not wholly
Absent == -1
Era == 0..2
Stamp == 0..(3 * (MaxSaves + 1))

VARIABLES file,    \* the content of the configuration file
          bak,     \* the content of every backup, by its stamp
          tmp,     \* the temporary file of the save
          litter,  \* temporary files that dead processes have left
          save,    \* the save under way: pc, content to write, content read, stamp
          todo,    \* the backups it still has to remove
          result,  \* what the last save returned
          era, saves, edits, fails, crashes, sets,
          undo,    \* history: the contents of which a backup must be there
          junk     \* history: saves that failed or died, and removals that failed,
                   \* since a save has pruned

disk == <<file, bak, tmp, litter>>
env == <<era, edits, sets>>
vars == <<disk, save, todo, result, env, saves, fails, crashes, undo, junk>>

Idle == [pc |-> "idle", new |-> 1, old |-> Absent, stamp |-> 0]

Init == /\ file = 1
        /\ bak = <<>>
        /\ tmp = Absent
        /\ litter = 0
        /\ save = Idle
        /\ todo = {}
        /\ result = "none"
        /\ era = 1
        /\ saves = 0 /\ edits = 0 /\ fails = 0 /\ crashes = 0 /\ sets = 0
        /\ undo = <<>>
        /\ junk = 0

-----------------------------------------------------------------------------
To(pc) == save' = [save EXCEPT !.pc = pc]
NewContent == 2 + saves + edits
Without(s) == [t \in DOMAIN bak \ {s} |-> bak[t]]
WithBackup(c) == [t \in DOMAIN bak \cup {save.stamp} |-> IF t = save.stamp THEN c ELSE bak[t]]

\* The save returns an error.  What it has written of a backup stays.
Fails == /\ fails < MaxFails
         /\ fails' = fails + 1
         /\ To("idle")
         /\ result' = "error"
         /\ junk' = junk + 1

Begin == /\ save.pc = "idle"
         /\ saves < MaxSaves
         /\ saves' = saves + 1
         /\ save' = [pc |-> "read", new |-> NewContent, old |-> Absent,
                     stamp |-> era * (MaxSaves + 1) + saves']
         /\ result' = "none"
         /\ UNCHANGED <<disk, todo, env, fails, crashes, undo, junk>>

\* Any error of the read is taken for a file that is not there yet.
ReadExisting ==
    /\ save.pc = "read"
    /\ \/ /\ save' = [save EXCEPT !.pc = "backup", !.old = file]
          /\ UNCHANGED fails
       \/ /\ fails < MaxFails
          /\ fails' = fails + 1
          /\ To("temp")
    /\ UNCHANGED <<disk, todo, result, env, saves, crashes, undo, junk>>

\* os.WriteFile creates the file, then writes it.
CreateBackup ==
    /\ save.pc = "backup"
    /\ \/ /\ bak' = WithBackup(Torn)
          /\ To("fill")
          /\ UNCHANGED <<fails, result, junk>>
       \/ Fails /\ UNCHANGED bak
    /\ UNCHANGED <<file, tmp, litter, todo, env, saves, crashes, undo>>

FillBackup ==
    /\ save.pc = "fill"
    /\ \/ /\ bak' = WithBackup(save.old)
          /\ To("temp")
          /\ UNCHANGED <<fails, result, junk>>
       \/ Fails /\ UNCHANGED bak
    /\ UNCHANGED <<file, tmp, litter, todo, env, saves, crashes, undo>>

\* The file itself is opened instead of a temporary one.
InPlace == /\ save.pc = "temp"
           /\ file' = Torn
           /\ tmp' = Torn
           /\ To("write")
           /\ UNCHANGED <<bak, litter, todo, result, env, saves, fails, crashes, undo, junk>>

CreateTemp ==
    /\ save.pc = "temp"
    /\ \/ /\ tmp' = Torn
          /\ To("write")
          /\ UNCHANGED <<fails, result, junk>>
       \/ Fails /\ UNCHANGED tmp
    /\ UNCHANGED <<file, bak, litter, todo, env, saves, crashes, undo>>

\* Write and Close, each of which removes the temporary file when it fails.
WriteTemp ==
    /\ save.pc = "write"
    /\ \/ /\ tmp' = save.new
          /\ To("rename")
          /\ UNCHANGED <<fails, result, junk>>
       \/ Fails /\ tmp' = Absent
    /\ UNCHANGED <<file, bak, litter, todo, env, saves, crashes, undo>>

\* A backup whose name sorts behind the one of this save.
Behind == \E s \in DOMAIN bak : s > save.stamp

\* The contents that can be brought back once the file has been replaced: those
\* of the last Keep saves, as far as nothing came between them.
Newest(s) == SubSeq(s, IF Len(s) > Keep THEN Len(s) - Keep + 1 ELSE 1, Len(s))
UndoNow == IF save.old # file \/ Behind THEN <<>>
           ELSE Newest(Append(IF junk > 0 THEN <<>> ELSE undo, file))

Rename ==
    /\ save.pc = "rename"
    /\ \/ /\ file' = tmp
          /\ undo' = UndoNow
          /\ To("glob")
          /\ UNCHANGED <<fails, result, junk>>
       \/ Fails /\ UNCHANGED <<file, undo>>
    /\ tmp' = Absent
    /\ UNCHANGED <<bak, litter, todo, env, saves, crashes>>

Later(s) == {t \in DOMAIN bak : t > s}
NewestGo == {s \in DOMAIN bak : Cardinality(DOMAIN bak \ Later(s)) > Keep}
OneMore == {s \in DOMAIN bak : Cardinality(Later(s)) > Keep}
Oldest == {s \in DOMAIN bak : Cardinality(Later(s)) >= Keep}

Glob == /\ save.pc = "glob"
        /\ todo' = Oldest
        /\ To("prune")
        /\ junk' = 0
        /\ UNCHANGED <<disk, result, env, saves, fails, crashes, undo>>

\* From the oldest on; an error is ignored.
Remove == /\ save.pc = "prune"
          /\ \E s \in todo :
               /\ \A t \in todo : s <= t
               /\ todo' = todo \ {s}
               /\ \/ bak' = Without(s) /\ UNCHANGED <<fails, junk>>
                  \/ /\ fails < MaxFails
                     /\ fails' = fails + 1
                     /\ junk' = junk + 1
                     /\ UNCHANGED bak
          /\ UNCHANGED <<file, tmp, litter, save, result, env, saves, crashes, undo>>

Return == /\ save.pc = "prune"
          /\ todo = {}
          /\ To("idle")
          /\ result' = "ok"
          /\ UNCHANGED <<disk, todo, env, saves, fails, crashes, undo, junk>>

-----------------------------------------------------------------------------
(* Others: an edit, the clock, a process that dies in a save.              *)

Edit == /\ edits < MaxEdits
        /\ edits' = edits + 1
        /\ file' = NewContent
        /\ UNCHANGED <<bak, tmp, litter, save, todo, result, era, sets, saves, fails, crashes,
                       undo, junk>>

SetClock == /\ sets < MaxSets
            /\ sets' = sets + 1
            /\ era' \in Era \ {era}
            /\ UNCHANGED <<disk, save, todo, result, edits, saves, fails, crashes, undo, junk>>

Crash == /\ save.pc # "idle"
         /\ crashes < MaxCrashes
         /\ crashes' = crashes + 1
         /\ save' = [save EXCEPT !.pc = "idle"]
         /\ todo' = {}
         /\ tmp' = Absent
         /\ litter' = IF tmp = Absent THEN litter ELSE litter + 1
         /\ junk' = junk + IF save.pc = "prune" THEN Cardinality(todo) ELSE 1
         /\ UNCHANGED <<file, bak, result, env, saves, fails, undo>>

Next == \/ Begin \/ ReadExisting \/ CreateBackup \/ FillBackup \/ CreateTemp \/ WriteTemp
        \/ Rename \/ Glob \/ Remove \/ Return
        \/ Edit \/ SetClock \/ Crash

Spec == Init /\ [][Next]_vars

\* Nothing is flushed: when the power goes soon after a rename, the file may
\* have its new name and not yet its content.
PowerCut == /\ save.pc \in {"glob", "prune"}
            /\ file' = Torn
            /\ save' = [save EXCEPT !.pc = "idle"]
            /\ todo' = {}
            /\ UNCHANGED <<bak, tmp, litter, result, env, saves, fails, crashes, undo, junk>>

PowerSpec == Init /\ [][Next \/ PowerCut]_vars

-----------------------------------------------------------------------------
Pc == {"idle", "read", "backup", "fill", "temp", "write", "rename", "glob", "prune"}

TypeOK == /\ file \in Content
          /\ DOMAIN bak \subseteq Stamp
          /\ \A s \in DOMAIN bak : bak[s] \in Content \cup {Torn}
          /\ tmp \in Content \cup {Torn, Absent}
          /\ litter \in 0..MaxCrashes
          /\ save \in [pc : Pc, new : Content, old : Content \cup {Absent}, stamp : Stamp]
          /\ todo \subseteq DOMAIN bak
          /\ result \in {"none", "ok", "error"}
          /\ era \in Era
          /\ saves \in 0..MaxSaves /\ edits \in 0..MaxEdits /\ fails \in 0..MaxFails
          /\ crashes \in 0..MaxCrashes /\ sets \in 0..MaxSets
          /\ undo \in Seq(Content)
          /\ junk \in Nat

\* A reader of the file never finds a part of a configuration, and a save says
\* whether it has replaced the file (reloader.go:102-121).
Phase == CASE save.pc = "idle" -> "idle"
           [] save.pc \in {"glob", "prune"} -> "replaced"
           [] OTHER -> "asked"

Atomic == INSTANCE AtomicFile WITH content <- file, wanted <- save.new, phase <- Phase
ImplementsAtomicFile == Atomic!Spec

\* What a save has replaced can be brought back, for as many saves as backups
\* are kept: a whole copy is there whatever fails or dies later, as long as no
\* failed save came between, the clock was not set back, and nobody edited the
\* file behind the backup (reloader.go:94-101, 129-141).
UndoKept == \A i \in DOMAIN undo : \E s \in DOMAIN bak : bak[s] = undo[i]

\* Backups do not pile up: beyond Keep there is at most one for each save that
\* has failed or died since the last one that pruned, and one for each removal
\* that failed or was not reached (reloader.go:124-141).
Own == IF save.pc \in {"fill", "temp", "write", "rename", "glob"} THEN 1 ELSE 0
BackupsBounded == Cardinality(DOMAIN bak) <= Keep + junk + Own + Cardinality(todo)

-----------------------------------------------------------------------------
(* Stronger promises, which the code does not keep.                        *)

\* Every content that a save replaces is in a backup: not one that could not be
\* read, nor an edit made between the read and the rename.
ReplacedIsBackedUp ==
    [][save.pc = "rename" /\ file' # file /\ save'.pc = "glob"
         => \E s \in DOMAIN bak : bak[s] = file]_vars

\* A save that has succeeded leaves the backup it has made: not with a clock set
\* back behind Keep others.
BackupOutlivesSave == result = "ok" /\ save.old # Absent => save.stamp \in DOMAIN bak

\* Save never leaves more than Keep backups: one that fails after its backup does.
BackupsCapped == save.pc = "idle" => Cardinality(DOMAIN bak) <= Keep

\* Temporary files are removed: not those of a process that died.
NoLitter == litter = 0
=============================================================================
