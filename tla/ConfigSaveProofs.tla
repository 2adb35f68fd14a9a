-------------------------- MODULE ConfigSaveProofs --------------------------
(***************************************************************************)
(* The saves of the configuration file, for any number of saves, edits,    *)
(* failures, crashes and changes of the clock, and any number of backups   *)
(* that are kept: every step is one of AtomicFile or none, backups do not  *)
(* pile up, and what a save replaced stays in a backup, unless a save has  *)
(* failed since, the clock was set back or an editor wrote under the save. *)
(***************************************************************************)
EXTENDS ConfigSave, FiniteSetTheorems, WellFoundedInduction, SequenceTheorems, TLAPS

\* What the temporary file, the backup of the save under way and the list of
\* backups to remove hold at each place of a save.
TempIsNew == save.pc = "rename" => tmp = save.new
OldIsRead == save.pc \in {"backup", "fill"} => save.old \in Content
NothingRead == save.pc = "read" => save.old = Absent
OwnTorn == save.pc = "fill" => save.stamp \in DOMAIN bak /\ bak[save.stamp] = Torn
OwnKept == save.pc \in {"temp", "write", "rename"} /\ save.old # Absent
              => save.stamp \in DOMAIN bak /\ bak[save.stamp] = save.old
TodoInPrune == todo # {} => save.pc = "prune"
LitterCounted == litter <= crashes

Places == /\ TempIsNew /\ OldIsRead /\ NothingRead /\ OwnTorn /\ OwnKept
          /\ TodoInPrune /\ LitterCounted

Base == TypeOK /\ Places

-----------------------------------------------------------------------------
(* Lemmas on the data of a save.                                           *)

\* A save has a stamp of its own range, whatever era the clock is in.
LEMMA StampType ==
    ASSUME TypeOK, saves < MaxSaves
    PROVE  era * (MaxSaves + 1) + (saves + 1) \in Stamp
  <1>1. era = 0 \/ era = 1 \/ era = 2
    BY DEF TypeOK, Era
  <1>2. saves \in Nat /\ MaxSaves \in Nat
    BY SaveAssumption DEF TypeOK
  <1>3. CASE era = 0
    BY <1>2, <1>3 DEF Stamp
  <1>4. CASE era = 1
    BY <1>2, <1>4 DEF Stamp
  <1>5. CASE era = 2
    BY <1>2, <1>5 DEF Stamp
  <1> QED
    BY <1>1, <1>3, <1>4, <1>5

\* The contents that can be brought back are at most Keep, the newest ones.
LEMMA NewestType ==
    ASSUME NEW s \in Seq(Content)
    PROVE  /\ Newest(s) \in Seq(Content)
           /\ Len(Newest(s)) = IF Len(s) > Keep THEN Keep ELSE Len(s)
           /\ \A i \in DOMAIN Newest(s) :
                /\ Len(s) - Len(Newest(s)) + i \in DOMAIN s
                /\ Newest(s)[i] = s[Len(s) - Len(Newest(s)) + i]
  <1> DEFINE m == IF Len(s) > Keep THEN Len(s) - Keep + 1 ELSE 1
  <1>1. Keep \in Nat \ {0} /\ Len(s) \in Nat /\ m \in Int /\ DOMAIN s = 1..Len(s)
    BY SaveAssumption
  <1>2. \A i \in m..Len(s) : s[i] \in Content
    BY <1>1
  <1>3. /\ SubSeq(s, m, Len(s)) \in Seq(Content)
        /\ Len(SubSeq(s, m, Len(s))) = IF m <= Len(s) THEN Len(s) - m + 1 ELSE 0
        /\ \A i \in 1..(Len(s) - m + 1) : SubSeq(s, m, Len(s))[i] = s[m + i - 1]
    <2> HIDE DEF m
    <2> QED
      BY <1>1, <1>2, SubSeqProperties
  <1>4. Newest(s) = SubSeq(s, m, Len(s))
    BY DEF Newest
  <1>5. Len(Newest(s)) = Len(s) - m + 1 /\ Len(Newest(s)) = IF Len(s) > Keep THEN Keep ELSE Len(s)
    <2>1. Len(Newest(s)) = IF m <= Len(s) THEN Len(s) - m + 1 ELSE 0
      BY <1>3, <1>4
    <2>2. CASE Len(s) > Keep
      BY <1>1, <2>1, <2>2
    <2>3. CASE ~(Len(s) > Keep)
      BY <1>1, <2>1, <2>3
    <2> QED
      BY <2>2, <2>3
  <1>6. ASSUME NEW i \in DOMAIN Newest(s)
        PROVE  /\ Len(s) - Len(Newest(s)) + i \in DOMAIN s
               /\ Newest(s)[i] = s[Len(s) - Len(Newest(s)) + i]
    <2> HIDE DEF m
    <2>1. i \in 1..Len(Newest(s))
      BY <1>3, <1>4
    <2>2. i \in Int /\ i \in 1..(Len(s) - m + 1) /\ m + i - 1 = Len(s) - Len(Newest(s)) + i
      BY <1>1, <1>5, <2>1
    <2>3. Len(s) - Len(Newest(s)) + i \in 1..Len(s)
      BY <1>1, <1>5, <2>2, <2>1, SaveAssumption
    <2>4. Newest(s)[i] = s[m + i - 1]
      BY <1>3, <1>4, <2>2
    <2> QED
      BY <1>1, <2>2, <2>3, <2>4
  <1> QED
    BY <1>3, <1>4, <1>5, <1>6

\* The undo history of a rename is one of contents.
LEMMA UndoType ==
    ASSUME TypeOK
    PROVE  UndoNow \in Seq(Content)
  <1>1. <<>> \in Seq(Content) /\ file \in Content /\ undo \in Seq(Content)
    BY DEF TypeOK
  <1>2. Append(IF junk > 0 THEN <<>> ELSE undo, file) \in Seq(Content)
    BY <1>1
  <1> QED
    BY <1>1, <1>2, NewestType DEF UndoNow

\* Moving to another place leaves the rest of a save as it is.
LEMMA ToType ==
    ASSUME TypeOK, NEW p \in Pc, To(p)
    PROVE  /\ save' \in [pc : Pc, new : Content, old : Content \cup {Absent}, stamp : Stamp]
           /\ save'.pc = p /\ save'.new = save.new /\ save'.old = save.old
           /\ save'.stamp = save.stamp
  BY DEF TypeOK, To

\* Writing and removing a backup change this one only.
LEMMA BackupType ==
    ASSUME TypeOK
    PROVE  /\ \A c \in Content \cup {Torn} :
                /\ DOMAIN WithBackup(c) = DOMAIN bak \cup {save.stamp}
                /\ DOMAIN WithBackup(c) \subseteq Stamp
                /\ \A t \in DOMAIN WithBackup(c) :
                     /\ WithBackup(c)[t] = IF t = save.stamp THEN c ELSE bak[t]
                     /\ WithBackup(c)[t] \in Content \cup {Torn}
           /\ \A s : /\ DOMAIN Without(s) = DOMAIN bak \ {s}
                     /\ \A t \in DOMAIN bak \ {s} : Without(s)[t] = bak[t]
  BY DEF TypeOK, WithBackup, Without

\* What a save has read of the file is a content.
LEMMA ReadType ==
    ASSUME TypeOK, save' = [save EXCEPT !.pc = "backup", !.old = file]
    PROVE  /\ save' \in [pc : Pc, new : Content, old : Content \cup {Absent}, stamp : Stamp]
           /\ save'.pc = "backup" /\ save'.new = save.new /\ save'.old = file
           /\ save'.stamp = save.stamp
  BY DEF TypeOK, Pc

\* Backups are finitely many.
LEMMA BackupsFinite ==
    ASSUME TypeOK, NEW T \in SUBSET DOMAIN bak
    PROVE  IsFiniteSet(T) /\ Cardinality(T) \in Nat
  <1>1. IsFiniteSet(Stamp)
    BY SaveAssumption, FS_Interval DEF Stamp
  <1> QED
    BY <1>1, FS_Subset, FS_CardinalityType DEF TypeOK

-----------------------------------------------------------------------------
(* Types, and what a save knows at each of its places.                     *)

\* A new save has read nothing yet.
LEMMA BeginBase ==
    ASSUME Base, Begin
    PROVE  Base'
  <1> USE SaveAssumption DEF Base, Begin
  <1> USE DEF Content, NewContent
  <1>1. TypeOK'
    BY StampType DEF TypeOK, Places, OldIsRead, disk, env, Fails, Pc, Torn, Absent, Era,
           Oldest
  <1>2. Places'
    BY DEF TypeOK, Places, TempIsNew, OldIsRead, NothingRead, OwnTorn, OwnKept, TodoInPrune,
           LitterCounted, disk, env, To, Fails, Torn, Absent
  <1> QED
    BY <1>1, <1>2

\* What a save reads of the file is a whole content, or nothing when the read fails.
LEMMA ReadExistingBase ==
    ASSUME Base, ReadExisting
    PROVE  Base'
  <1> USE SaveAssumption DEF Base, ReadExisting
  <1>1. CASE save' = [save EXCEPT !.pc = "backup", !.old = file] /\ UNCHANGED fails
    <2>1. TypeOK'
      BY <1>1, ReadType DEF TypeOK, disk, env
    <2>2. Places'
      BY <1>1, ReadType DEF TypeOK, Places, TempIsNew, OldIsRead, NothingRead, OwnTorn,
             OwnKept, TodoInPrune, LitterCounted, disk
    <2> QED
      BY <2>1, <2>2
  <1>2. CASE fails < MaxFails /\ fails' = fails + 1 /\ To("temp")
    <2>1. save.old = Absent
      BY DEF Places, NothingRead
    <2>2. "temp" \in Pc
      BY DEF Pc
    <2>3. TypeOK'
      BY <1>2, <2>2, ToType, SMTT(20) DEF TypeOK, disk, env
    <2>4. Places'
      BY <1>2, <2>1, <2>2, ToType DEF TypeOK, Places, TempIsNew, OldIsRead, NothingRead,
             OwnTorn, OwnKept, TodoInPrune, LitterCounted, disk
    <2> QED
      BY <2>3, <2>4
  <1> QED
    BY <1>1, <1>2

\* The backup of a save is there and empty, once it is created.
LEMMA CreateBackupBase ==
    ASSUME Base, CreateBackup
    PROVE  Base'
  <1> USE SaveAssumption DEF Base, CreateBackup
  <1>1. save.old \in Content
    BY DEF Places, OldIsRead
  <1>2. CASE bak' = WithBackup(Torn) /\ To("fill") /\ UNCHANGED <<fails, result, junk>>
    <2>1. "fill" \in Pc
      BY DEF Pc
    <2>2. /\ save' \in [pc : Pc, new : Content, old : Content \cup {Absent}, stamp : Stamp]
          /\ save'.pc = "fill" /\ save'.old = save.old /\ save'.stamp = save.stamp
      BY <1>2, <2>1, ToType
    <2>3. /\ DOMAIN bak' = DOMAIN bak \cup {save.stamp}
          /\ \A t \in DOMAIN bak' : /\ bak'[t] = IF t = save.stamp THEN Torn ELSE bak[t]
                                    /\ bak'[t] \in Content \cup {Torn}
      BY <1>1, <1>2, BackupType
    <2>4. TypeOK'
      BY <1>2, <2>2, <2>3 DEF TypeOK, env
    <2>5. Places'
      BY <1>1, <2>2, <2>3 DEF TypeOK, Places, TempIsNew, OldIsRead, NothingRead, OwnTorn,
             OwnKept, TodoInPrune, LitterCounted
    <2> QED
      BY <2>4, <2>5
  <1>3. CASE Fails /\ UNCHANGED bak
    BY <1>3, ToType DEF TypeOK, Fails, Pc, env, Places, TempIsNew, OldIsRead, NothingRead,
           OwnTorn, OwnKept, TodoInPrune, LitterCounted
  <1> QED
    BY <1>2, <1>3

\* The backup of a save is what it has read, once it is written.
LEMMA FillBackupBase ==
    ASSUME Base, FillBackup
    PROVE  Base'
  <1> USE SaveAssumption DEF Base, FillBackup
  <1>1. save.old \in Content /\ save.stamp \in DOMAIN bak
    BY DEF Places, OldIsRead, OwnTorn
  <1>2. CASE bak' = WithBackup(save.old) /\ To("temp") /\ UNCHANGED <<fails, result, junk>>
    <2>1. "temp" \in Pc
      BY DEF Pc
    <2>2. /\ save' \in [pc : Pc, new : Content, old : Content \cup {Absent}, stamp : Stamp]
          /\ save'.pc = "temp" /\ save'.old = save.old /\ save'.stamp = save.stamp
      BY <1>2, <2>1, ToType
    <2>3. /\ DOMAIN bak' = DOMAIN bak
          /\ \A t \in DOMAIN bak' : /\ bak'[t] = IF t = save.stamp THEN save.old ELSE bak[t]
                                    /\ bak'[t] \in Content \cup {Torn}
      BY <1>1, <1>2, BackupType
    <2>4. TypeOK'
      BY <1>2, <2>2, <2>3 DEF TypeOK, env
    <2>5. Places'
      BY <1>1, <2>2, <2>3 DEF TypeOK, Places, TempIsNew, OldIsRead, NothingRead, OwnTorn,
             OwnKept, TodoInPrune, LitterCounted
    <2> QED
      BY <2>4, <2>5
  <1>3. CASE Fails /\ UNCHANGED bak
    BY <1>3, ToType DEF TypeOK, Fails, Pc, env, Places, TempIsNew, OldIsRead, NothingRead,
           OwnTorn, OwnKept, TodoInPrune, LitterCounted
  <1> QED
    BY <1>2, <1>3

\* The temporary file is empty at first.
LEMMA CreateTempBase ==
    ASSUME Base, CreateTemp
    PROVE  Base'
  <1> USE SaveAssumption DEF Base, CreateTemp
  <1>1. TypeOK'
    BY ToType DEF TypeOK, Places, OldIsRead, disk, env, Fails, Pc, Torn, Absent, Era, Oldest
  <1>2. Places'
    BY DEF TypeOK, Places, TempIsNew, OldIsRead, NothingRead, OwnTorn, OwnKept, TodoInPrune,
           LitterCounted, disk, env, To, Fails, Torn, Absent
  <1> QED
    BY <1>1, <1>2

\* The temporary file holds the new content before the rename.
LEMMA WriteTempBase ==
    ASSUME Base, WriteTemp
    PROVE  Base'
  <1> USE SaveAssumption DEF Base, WriteTemp
  <1>1. TypeOK'
    BY ToType DEF TypeOK, Places, OldIsRead, disk, env, Fails, Pc, Torn, Absent, Era, Oldest
  <1>2. Places'
    BY DEF TypeOK, Places, TempIsNew, OldIsRead, NothingRead, OwnTorn, OwnKept, TodoInPrune,
           LitterCounted, disk, env, To, Fails, Torn, Absent
  <1> QED
    BY <1>1, <1>2

\* The file is replaced by a whole content.
LEMMA RenameBase ==
    ASSUME Base, Rename
    PROVE  Base'
  <1> USE SaveAssumption DEF Base, Rename
  <1>1. tmp = save.new /\ save.new \in Content /\ UndoNow \in Seq(Content)
    BY UndoType DEF TypeOK, Places, TempIsNew
  <1>2. file' \in Content /\ undo' \in Seq(Content)
    BY <1>1 DEF TypeOK
  <1>3. \E p \in {"glob", "idle"} : To(p)
    BY DEF Fails
  <1>4. /\ save' \in [pc : Pc, new : Content, old : Content \cup {Absent}, stamp : Stamp]
        /\ save'.pc \in {"glob", "idle"}
    <2>1. {"glob", "idle"} \subseteq Pc
      BY DEF Pc
    <2> QED
      BY <1>3, <2>1, ToType
  <1>5. fails' \in 0..MaxFails /\ junk' \in Nat /\ result' \in {"none", "ok", "error"}
    BY DEF TypeOK, Fails
  <1>6. TypeOK'
    BY <1>2, <1>4, <1>5 DEF TypeOK, env
  <1>7. Places'
    BY <1>4 DEF TypeOK, Places, TempIsNew, OldIsRead, NothingRead, OwnTorn, OwnKept,
           TodoInPrune, LitterCounted
  <1> QED
    BY <1>6, <1>7

\* Backups are listed in the last place of a save only.
LEMMA GlobBase ==
    ASSUME Base, Glob
    PROVE  Base'
  <1> USE SaveAssumption DEF Base, Glob
  <1>1. TypeOK'
    BY ToType DEF TypeOK, Places, OldIsRead, disk, env, Fails, Pc, Torn, Absent, Era, Oldest
  <1>2. Places'
    BY DEF TypeOK, Places, TempIsNew, OldIsRead, NothingRead, OwnTorn, OwnKept, TodoInPrune,
           LitterCounted, disk, env, To, Fails, Torn, Absent
  <1> QED
    BY <1>1, <1>2

\* The list holds backups that are there.
LEMMA RemoveBase ==
    ASSUME Base, Remove
    PROVE  Base'
  <1> USE SaveAssumption DEF Base, Remove
  <1>1. PICK s \in todo : /\ todo' = todo \ {s}
                          /\ \/ bak' = Without(s) /\ UNCHANGED <<fails, junk>>
                             \/ /\ fails < MaxFails
                                /\ fails' = fails + 1
                                /\ junk' = junk + 1
                                /\ UNCHANGED bak
    OBVIOUS
  <1>2. CASE bak' = Without(s) /\ UNCHANGED <<fails, junk>>
    <2>1. /\ DOMAIN bak' = DOMAIN bak \ {s}
          /\ \A t \in DOMAIN bak' : bak'[t] = bak[t]
      BY <1>2, BackupType
    <2>2. /\ DOMAIN bak' \subseteq Stamp
          /\ \A t \in DOMAIN bak' : bak'[t] \in Content \cup {Torn}
          /\ todo' \subseteq DOMAIN bak'
      BY <1>1, <2>1 DEF TypeOK
    <2> QED
      BY <1>1, <1>2, <2>2 DEF TypeOK, env, Places, TempIsNew, OldIsRead, NothingRead,
             OwnTorn, OwnKept, TodoInPrune, LitterCounted
  <1>3. CASE fails < MaxFails /\ fails' = fails + 1 /\ junk' = junk + 1 /\ UNCHANGED bak
    BY <1>1, <1>3 DEF TypeOK, env, Places, TempIsNew, OldIsRead, NothingRead, OwnTorn,
           OwnKept, TodoInPrune, LitterCounted
  <1> QED
    BY <1>1, <1>2, <1>3

\* A save returns with nothing left on its list.
LEMMA ReturnBase ==
    ASSUME Base, Return
    PROVE  Base'
  <1> USE SaveAssumption DEF Base, Return
  <1>1. TypeOK'
    BY ToType DEF TypeOK, Places, OldIsRead, disk, env, Fails, Pc, Torn, Absent, Era, Oldest
  <1>2. Places'
    BY DEF TypeOK, Places, TempIsNew, OldIsRead, NothingRead, OwnTorn, OwnKept, TodoInPrune,
           LitterCounted, disk, env, To, Fails, Torn, Absent
  <1> QED
    BY <1>1, <1>2

\* An edit leaves what a save knows of its own files.
LEMMA EditBase ==
    ASSUME Base, Edit
    PROVE  Base'
  <1> USE SaveAssumption DEF Base, Edit
  <1> USE DEF Content, NewContent
  <1>1. TypeOK'
    BY ToType DEF TypeOK, Places, OldIsRead, disk, env, Fails, Pc, Torn, Absent, Era, Oldest
  <1>2. Places'
    BY DEF TypeOK, Places, TempIsNew, OldIsRead, NothingRead, OwnTorn, OwnKept, TodoInPrune,
           LitterCounted, disk, env, To, Fails, Torn, Absent
  <1> QED
    BY <1>1, <1>2

\* The clock leaves all but the era.
LEMMA SetClockBase ==
    ASSUME Base, SetClock
    PROVE  Base'
  <1> USE SaveAssumption DEF Base, SetClock
  <1>1. TypeOK'
    BY ToType DEF TypeOK, Places, OldIsRead, disk, env, Fails, Pc, Torn, Absent, Era, Oldest
  <1>2. Places'
    BY DEF TypeOK, Places, TempIsNew, OldIsRead, NothingRead, OwnTorn, OwnKept, TodoInPrune,
           LitterCounted, disk, env, To, Fails, Torn, Absent
  <1> QED
    BY <1>1, <1>2

\* A process that dies leaves no list, and at most one temporary file.
LEMMA CrashBase ==
    ASSUME Base, Crash
    PROVE  Base'
  <1> USE SaveAssumption DEF Base, Crash
  <1>1. junk' \in Nat
    <2>1. Cardinality(todo) \in Nat
      BY BackupsFinite DEF TypeOK
    <2>2. junk \in Nat /\ (junk' = junk + 1 \/ junk' = junk + Cardinality(todo))
      BY DEF TypeOK
    <2> QED
      BY <2>1, <2>2
  <1>2. To("idle") /\ "idle" \in Pc
    BY DEF To, Pc
  <1>3. save' \in [pc : Pc, new : Content, old : Content \cup {Absent}, stamp : Stamp]
    BY <1>2, ToType
  <1>4. litter' \in 0..MaxCrashes /\ crashes' \in 0..MaxCrashes /\ litter' <= crashes'
    <2>1. litter \in Nat /\ crashes \in Nat /\ litter <= crashes /\ MaxCrashes \in Nat
      BY DEF TypeOK, Places, LitterCounted
    <2>2. crashes < MaxCrashes /\ crashes' = crashes + 1
          /\ (litter' = litter \/ litter' = litter + 1)
      OBVIOUS
    <2> HIDE DEF Base, Crash
    <2> QED
      BY <2>1, <2>2
  <1>5. TypeOK'
    BY <1>1, <1>3, <1>4 DEF TypeOK, env
  <1>6. save'.pc = "idle"
    BY <1>2, ToType
  <1>7. Places'
    BY <1>4, <1>6 DEF Places, TempIsNew, OldIsRead, NothingRead, OwnTorn, OwnKept,
           TodoInPrune, LitterCounted
  <1> QED
    BY <1>5, <1>7


\* A first save finds nothing of another.
THEOREM InitBase == Init => Base
  BY SaveAssumption DEF Init, Base, TypeOK, Places, TempIsNew, OldIsRead, NothingRead,
         OwnTorn, OwnKept, TodoInPrune, LitterCounted, Idle, Content, Torn, Absent, Stamp,
     Era, Pc

\* Every step keeps the types and the places.
THEOREM NextBase == Base /\ [Next]_vars => Base'
  <1> SUFFICES ASSUME Base, [Next]_vars PROVE Base'
    OBVIOUS
  <1>1. CASE UNCHANGED vars
    BY <1>1 DEF vars, disk, env, Base, TypeOK, Places, TempIsNew, OldIsRead, NothingRead,
           OwnTorn, OwnKept, TodoInPrune, LitterCounted
  <1> QED
    BY <1>1, BeginBase, ReadExistingBase, CreateBackupBase, FillBackupBase, CreateTempBase,
       WriteTempBase, RenameBase, GlobBase, RemoveBase, ReturnBase, EditBase, SetClockBase,
       CrashBase DEF Next

\* What a save holds at each place, and the types of all, in every behaviour.
THEOREM BaseInvariant == Spec => []Base
  BY InitBase, NextBase, PTL DEF Spec

-----------------------------------------------------------------------------
(* The refinement.                                                         *)

\* The file is whole at first, and nothing is asked.
LEMMA InitRefines == Init => Atomic!Init
  BY SaveAssumption DEF Init, Atomic!Init, Idle, Phase, Content

\* A save asks, replaces, reports; every other step of it is none of the file.
LEMMA StepRefines == Base /\ [Next]_vars => [Atomic!Next]_Atomic!vars
  <1> SUFFICES ASSUME Base, [Next]_vars PROVE [Atomic!Next]_Atomic!vars
    OBVIOUS
  <1> USE DEF Base, TypeOK, Phase, To, Pc, Atomic!vars
  <1>1. CASE Begin
    <2>1. NewContent \in Content
      BY <1>1, SaveAssumption DEF Begin, NewContent, Content
    <2>2. Atomic!Ask
      BY <1>1, <2>1 DEF Begin, disk, Atomic!Ask
    <2> QED
      BY <2>2 DEF Atomic!Next
  <1>2. CASE Rename
    <2>1. Atomic!Replace \/ Atomic!Report
      BY <1>2 DEF Rename, Places, TempIsNew, Fails, Atomic!Replace, Atomic!Report
    <2> QED
      BY <2>1 DEF Atomic!Next
  <1>3. CASE Return
    <2>1. Atomic!Report
      BY <1>3 DEF Return, disk, Atomic!Report
    <2> QED
      BY <2>1 DEF Atomic!Next
  <1>4. CASE ReadExisting \/ Glob \/ Remove \/ SetClock
    BY <1>4 DEF ReadExisting, Glob, Remove, SetClock, disk
  <1>5. CASE CreateBackup \/ FillBackup \/ CreateTemp \/ WriteTemp
    <2>1. UNCHANGED Atomic!vars \/ Atomic!Report
      BY <1>5 DEF CreateBackup, FillBackup, CreateTemp, WriteTemp, Fails, Atomic!Report
    <2> QED
      BY <2>1 DEF Atomic!Next
  <1>6. CASE Edit
    <2>1. NewContent \in Content
      BY <1>6, SaveAssumption DEF Edit, NewContent, Content
    <2>2. Atomic!Edit
      BY <1>6, <2>1 DEF Edit, Atomic!Edit
    <2> QED
      BY <2>2 DEF Atomic!Next
  <1>7. CASE Crash
    <2>1. Atomic!Die
      BY <1>7 DEF Crash, Atomic!Die
    <2> QED
      BY <2>1 DEF Atomic!Next
  <1>8. CASE UNCHANGED vars
    BY <1>8 DEF vars, disk
  <1> QED
    BY <1>1, <1>2, <1>3, <1>4, <1>5, <1>6, <1>7, <1>8 DEF Next

\* A reader finds a whole configuration at any time, and a save says whether it has
\* replaced it, whatever fails or dies in between (reloader.go:102-121).
THEOREM SaveIsAtomic == Spec => ImplementsAtomicFile
  BY InitRefines, StepRefines, BaseInvariant, PTL DEF Spec, Atomic!Spec,
         ImplementsAtomicFile

-----------------------------------------------------------------------------
(* Backups do not pile up.                                                 *)

\* Of any finite set of numbers, at most k have fewer than k later ones.
LEMMA FewAreNewest ==
    ASSUME NEW S \in SUBSET Nat, IsFiniteSet(S), NEW k \in Nat
    PROVE  /\ IsFiniteSet({s \in S : Cardinality({t \in S : t > s}) < k})
           /\ Cardinality({s \in S : Cardinality({t \in S : t > s}) < k}) \in Nat
           /\ Cardinality({s \in S : Cardinality({t \in S : t > s}) < k}) <= k
  <1> DEFINE N == {s \in S : Cardinality({t \in S : t > s}) < k}
  <1>1. N \subseteq S /\ N \subseteq Nat
    OBVIOUS
  <1>2. IsFiniteSet(N) /\ Cardinality(N) \in Nat
    BY <1>1, FS_Subset, FS_CardinalityType
  <1>3. Cardinality(N) <= k
    <2>1. CASE N = {}
      <3>1. Cardinality({}) = 0
        BY FS_EmptySet
      <3> HIDE DEF N
      <3> QED
        BY <2>1, <3>1
    <2>2. CASE N # {}
      <3>1. PICK m \in N : \A y \in N : ~(<<y, m>> \in OpToRel(<, Nat))
        <4> HIDE DEF N
        <4> QED
          BY <1>1, <2>2, NatLessThanWellFounded, WFMin
      <3> DEFINE L == {t \in S : t > m}
      <3>2. N \ {m} \subseteq L
        <4>1. \A y \in N : y \in Nat /\ y \in S /\ ~(y < m)
          <5> HIDE DEF N
          <5> QED
            BY <1>1, <3>1 DEF OpToRel
        <4> HIDE DEF N
        <4> QED
          BY <1>1, <4>1
      <3>3. IsFiniteSet(L) /\ Cardinality(L) \in Nat
        BY FS_Subset, FS_CardinalityType
      <3>4. Cardinality(L) < k
        OBVIOUS
      <3> HIDE DEF L, N
      <3>5. Cardinality(N \ {m}) <= Cardinality(L)
        BY <3>2, <3>3, FS_Subset
      <3>6. Cardinality(N \ {m}) = Cardinality(N) - 1
        BY <1>2, FS_RemoveElement
      <3> QED
        BY <1>2, <3>3, <3>4, <3>5, <3>6
    <2> QED
      BY <2>1, <2>2
  <1> QED
    BY <1>2, <1>3

\* The backups that a save removes are all but Keep of them.
LEMMA OldestButKeep ==
    ASSUME TypeOK
    PROVE  Cardinality(DOMAIN bak) <= Keep + Cardinality(Oldest)
  <1> DEFINE S == DOMAIN bak
             N == {s \in S : Cardinality(Later(s)) < Keep}
  <1>1. S \in SUBSET Nat /\ IsFiniteSet(S) /\ Keep \in Nat
    BY BackupsFinite, SaveAssumption DEF TypeOK, Stamp
  <1>2. IsFiniteSet(N) /\ Cardinality(N) \in Nat /\ Cardinality(N) <= Keep
    BY <1>1, FewAreNewest DEF Later
  <1>3. S = N \cup Oldest
    <2>1. ASSUME NEW s \in S PROVE Cardinality(Later(s)) \in Nat
      BY BackupsFinite DEF Later
    <2> QED
      BY <1>1, <2>1 DEF Oldest
  <1>4. IsFiniteSet(Oldest) /\ Cardinality(Oldest) \in Nat
    BY BackupsFinite DEF Oldest
  <1>5. /\ Cardinality(N \cup Oldest) = Cardinality(N) + Cardinality(Oldest)
                                          - Cardinality(N \cap Oldest)
        /\ Cardinality(N \cap Oldest) \in Nat
    <2> HIDE DEF N
    <2>1. IsFiniteSet(N \cap Oldest)
      BY <1>2, FS_Subset
    <2> QED
      BY <1>2, <1>4, <2>1, FS_Union, FS_CardinalityType
  <1> HIDE DEF N
  <1> QED
    BY <1>1, <1>2, <1>3, <1>4, <1>5

\* What the bound of the backups comes to when a failure is counted for one.
LEMMA SumStays ==
    ASSUME NEW k \in Nat, NEW j \in Nat, NEW j2 \in Nat, NEW o \in Nat, NEW o2 \in Nat,
           NEW c \in Nat, NEW n \in Nat,
           n <= k + j + o + c, j2 + o2 >= j + o
    PROVE  n <= k + j2 + o2 + c
  OBVIOUS

\* The bound stays when no backup is made or removed and what a save no longer
\* owns is counted as left behind.
LEMMA SameBackups ==
    ASSUME TypeOK, BackupsBounded, UNCHANGED <<bak, todo>>,
           junk' \in Nat, junk' + Own' >= junk + Own
    PROVE  BackupsBounded'
  <1>1. /\ Cardinality(DOMAIN bak) \in Nat /\ Cardinality(todo) \in Nat
        /\ junk \in Nat /\ Keep \in Nat /\ Own \in Nat /\ Own' \in Nat
    BY BackupsFinite, SaveAssumption DEF TypeOK, Own
  <1>2. Cardinality(DOMAIN bak) <= Keep + junk' + Own' + Cardinality(todo)
    BY <1>1, SumStays DEF BackupsBounded
  <1> QED
    BY <1>2 DEF BackupsBounded

\* A step of a save that makes a backup at most adds one; a removal takes one off
\* the list with it.
LEMMA NextBounded ==
    ASSUME Base, BackupsBounded, [Next]_vars
    PROVE  BackupsBounded'
  <1> USE DEF Base
  <1>1. TypeOK' /\ TypeOK
    BY NextBase
  <1>2. /\ Cardinality(DOMAIN bak) \in Nat /\ IsFiniteSet(DOMAIN bak)
        /\ Cardinality(todo) \in Nat /\ IsFiniteSet(todo)
        /\ junk \in Nat /\ junk' \in Nat /\ Keep \in Nat
    BY <1>1, BackupsFinite, SaveAssumption DEF TypeOK
  <1>3. CASE Begin \/ ReadExisting
    <2>1. UNCHANGED <<bak, todo, junk>> /\ Own = 0
      BY <1>3 DEF Begin, ReadExisting, disk, Own
    <2> QED
      BY <1>1, <1>2, <2>1, SameBackups DEF Own
  <1>11. CASE CreateTemp \/ WriteTemp \/ Rename
    <2>1. UNCHANGED <<bak, todo>> /\ Own = 1
      BY <1>11 DEF CreateTemp, WriteTemp, Rename, Own
    <2>2. \/ junk' = junk /\ Own' = 1
          \/ junk' = junk + 1 /\ Own' = 0
      <3>1. \/ save'.pc \in {"write", "rename", "glob"} /\ junk' = junk
            \/ save'.pc = "idle" /\ junk' = junk + 1
        BY <1>1, <1>11, ToType DEF CreateTemp, WriteTemp, Rename, Fails, Pc
      <3> QED
        BY <3>1 DEF Own
    <2>3. junk' + Own' >= junk + Own
      BY <1>2, <2>1, <2>2
    <2> QED
      BY <1>1, <1>2, <2>1, <2>3, SameBackups
  <1>4. CASE Edit \/ SetClock \/ UNCHANGED vars
    <2>1. UNCHANGED <<bak, todo, save, junk>>
      BY <1>4 DEF Edit, SetClock, vars, disk
    <2>2. junk' + Own' >= junk + Own
      BY <1>2, <2>1 DEF Own
    <2> QED
      BY <1>1, <1>2, <2>1, <2>2, SameBackups
  <1>5. CASE CreateBackup
    <2>1. CASE bak' = WithBackup(Torn) /\ To("fill") /\ UNCHANGED <<fails, result, junk>>
      <3>1. Own = 0 /\ Own' = 1 /\ todo' = todo
        BY <1>1, <1>5, <2>1 DEF CreateBackup, To, Own, TypeOK
      <3>2. DOMAIN bak' = DOMAIN bak \cup {save.stamp}
        BY <1>1, <2>1, BackupType
      <3>3. Cardinality(DOMAIN bak') <= Cardinality(DOMAIN bak) + 1
        BY <1>2, <3>2, FS_AddElement
      <3>4. Cardinality(DOMAIN bak') \in Nat
        BY <1>2, <3>2, FS_AddElement, FS_CardinalityType
      <3> QED
        BY <1>2, <2>1, <3>1, <3>3, <3>4 DEF BackupsBounded
    <2>2. CASE Fails /\ UNCHANGED bak
      <3>1. UNCHANGED <<bak, todo>> /\ junk' + Own' >= junk + Own
        BY <1>1, <1>2, <1>5, <2>2, SMTT(20) DEF CreateBackup, Fails, To, Own, TypeOK
      <3> QED
        BY <1>1, <1>2, <3>1, SameBackups
    <2> QED
      BY <1>5, <2>1, <2>2 DEF CreateBackup
  <1>6. CASE FillBackup
    <2>1. DOMAIN bak' = DOMAIN bak
      <3>1. save.stamp \in DOMAIN bak /\ save.old \in Content
        BY <1>6 DEF FillBackup, Places, OwnTorn, OldIsRead
      <3> QED
        BY <1>1, <1>6, <3>1, BackupType DEF FillBackup
    <2>2. todo' = todo /\ junk' + Own' >= junk + Own /\ Own \in Nat /\ Own' \in Nat
      BY <1>1, <1>2, <1>6, SMTT(20) DEF FillBackup, Fails, To, Own, TypeOK
    <2> QED
      BY <1>2, <2>1, <2>2 DEF BackupsBounded
  <1>7. CASE Glob
    <2>1. Cardinality(DOMAIN bak) <= Keep + Cardinality(Oldest)
      BY <1>1, OldestButKeep
    <2>2. Cardinality(Oldest) \in Nat
      BY <1>1, BackupsFinite DEF Oldest
    <2>3. bak' = bak /\ todo' = Oldest /\ junk' = 0 /\ Own' = 0
      BY <1>1, <1>7 DEF Glob, disk, To, Own, TypeOK
    <2> QED
      BY <1>2, <2>1, <2>2, <2>3 DEF BackupsBounded
  <1>8. CASE Remove
    <2>1. PICK s \in todo : /\ todo' = todo \ {s}
                            /\ \/ bak' = Without(s) /\ UNCHANGED junk
                               \/ junk' = junk + 1 /\ UNCHANGED bak
      BY <1>8 DEF Remove
    <2>2. Own = 0 /\ Own' = 0
      BY <1>8 DEF Remove, Own
    <2>3. Cardinality(todo') = Cardinality(todo) - 1 /\ Cardinality(todo') \in Nat
      BY <1>2, <2>1, FS_RemoveElement, FS_CardinalityType
    <2>4. CASE bak' = Without(s) /\ UNCHANGED junk
      <3>1. DOMAIN bak' = DOMAIN bak \ {s} /\ s \in DOMAIN bak
        BY <1>1, <2>4, BackupType DEF TypeOK
      <3>2. Cardinality(DOMAIN bak') = Cardinality(DOMAIN bak) - 1
        BY <1>2, <3>1, FS_RemoveElement
      <3> QED
        BY <1>2, <2>2, <2>3, <2>4, <3>2 DEF BackupsBounded
    <2>5. CASE junk' = junk + 1 /\ UNCHANGED bak
      BY <1>2, <2>2, <2>3, <2>5 DEF BackupsBounded
    <2> QED
      BY <2>1, <2>4, <2>5
  <1>9. CASE Return
    <2>1. UNCHANGED <<bak, todo, junk>> /\ Own = 0 /\ Own' = 0
      BY <1>1, <1>9 DEF Return, disk, To, Own, TypeOK
    <2> QED
      BY <1>1, <1>2, <2>1, SameBackups
  <1>10. CASE Crash
    <2>1. todo' = {} /\ Own' = 0 /\ bak' = bak
      BY <1>1, <1>10 DEF Crash, Own, TypeOK
    <2>2. Cardinality({}) = 0
      BY FS_EmptySet
    <2>3. CASE save.pc = "prune"
      <3>1. junk' = junk + Cardinality(todo) /\ Own = 0
        BY <1>10, <2>3 DEF Crash, Own
      <3> QED
        BY <1>2, <2>1, <2>2, <3>1 DEF BackupsBounded
    <2>4. CASE save.pc # "prune"
      <3>1. junk' = junk + 1 /\ Own \in {0, 1} /\ todo = {}
        BY <1>10, <2>4 DEF Crash, Own, Places, TodoInPrune
      <3> QED
        BY <1>2, <2>1, <2>2, <3>1 DEF BackupsBounded
    <2> QED
      BY <2>3, <2>4
  <1> QED
    BY <1>3, <1>4, <1>5, <1>6, <1>7, <1>8, <1>9, <1>10, <1>11 DEF Next

\* However saves fail, die and are pruned, there are no more backups than Keep,
\* one for each failure that left one behind, and those about to be removed.
THEOREM BackupsStayFew == Spec => []BackupsBounded
  <1>1. Init => BackupsBounded
    <2>1. ASSUME Init PROVE DOMAIN bak = {} /\ todo = {} /\ junk = 0 /\ Own = 0
      BY <2>1 DEF Init, Own, Idle
    <2> QED
      BY <2>1, FS_EmptySet, SaveAssumption DEF BackupsBounded
  <1>2. Base /\ BackupsBounded /\ [Next]_vars => BackupsBounded'
    BY NextBounded
  <1> QED
    BY <1>1, <1>2, BaseInvariant, PTL DEF Spec

-----------------------------------------------------------------------------
(* What a save has replaced can be brought back.                           *)

\* The number of its save is in a stamp, so that no two saves share one.
Era3 == MaxSaves + 1
StampOf(e, k) == CASE e = 0 -> k [] e = 1 -> Era3 + k [] e = 2 -> 2 * Era3 + k
Stamped(s, n) == \E e \in Era, k \in 1..n : s = StampOf(e, k)
StampsUsed == /\ save.pc # "idle" => saves >= 1 /\ \E e \in Era : save.stamp = StampOf(e, saves)
              /\ \A s \in DOMAIN bak : Stamped(s, saves)
              /\ save.pc \in {"read", "backup"} => save.stamp \notin DOMAIN bak

\* The backups that are still to be removed have Keep later ones.
TodoOld == \A s \in todo : Cardinality(Later(s)) >= Keep

\* As long as nothing that failed has left a backup behind, the content a save
\* replaced i saves ago is in a backup with less than i later ones, but for
\* that of the save under way.
Extra == IF save.pc \in {"fill", "temp", "write", "rename"} THEN 1 ELSE 0
Settled == junk = 0 \/ save.pc \in {"glob", "prune"}
Holds(i, s) == /\ s \in DOMAIN bak /\ bak[s] = undo[i]
               /\ Settled => Cardinality(Later(s)) <= Len(undo) - i + Extra
UndoHeld == /\ Len(undo) <= Keep
            /\ \A i \in DOMAIN undo : \E s \in DOMAIN bak : Holds(i, s)

UndoInv == StampsUsed /\ TodoOld /\ UndoHeld

\* Two saves have two stamps, in whatever eras they were made.
LEMMA StampsDiffer ==
    ASSUME NEW e \in Era, NEW f \in Era, NEW n \in Nat, n < MaxSaves, NEW k \in 1..n
    PROVE  StampOf(e, n + 1) # StampOf(f, k)
  <1>1. n \in Int /\ k \in Int /\ 1 <= k /\ k <= n /\ MaxSaves \in Int
    BY SaveAssumption
  <1>2. (e = 0 \/ e = 1 \/ e = 2) /\ (f = 0 \/ f = 1 \/ f = 2)
    BY DEF Era
  <1>3. CASE e = 0
    <2>1. StampOf(e, n + 1) = n + 1
      BY <1>3 DEF StampOf
    <2>2. StampOf(f, k) = k \/ StampOf(f, k) = Era3 + k \/ StampOf(f, k) = 2 * Era3 + k
      BY <1>2 DEF StampOf
    <2> QED
      BY <1>1, <2>1, <2>2 DEF Era3
  <1>4. CASE e = 1
    <2>1. StampOf(e, n + 1) = Era3 + (n + 1)
      BY <1>4 DEF StampOf
    <2>2. StampOf(f, k) = k \/ StampOf(f, k) = Era3 + k \/ StampOf(f, k) = 2 * Era3 + k
      BY <1>2 DEF StampOf
    <2> QED
      BY <1>1, <2>1, <2>2 DEF Era3
  <1>5. CASE e = 2
    <2>1. StampOf(e, n + 1) = 2 * Era3 + (n + 1)
      BY <1>5 DEF StampOf
    <2>2. StampOf(f, k) = k \/ StampOf(f, k) = Era3 + k \/ StampOf(f, k) = 2 * Era3 + k
      BY <1>2 DEF StampOf
    <2> QED
      BY <1>1, <2>1, <2>2 DEF Era3
  <1> QED
    BY <1>2, <1>3, <1>4, <1>5

\* The stamp of a save is the one of its number, in the era the clock is in.
LEMMA StampIsOf ==
    ASSUME TypeOK, NEW n \in Nat
    PROVE  era * (MaxSaves + 1) + n = StampOf(era, n)
  <1>1. era = 0 \/ era = 1 \/ era = 2
    BY DEF TypeOK, Era
  <1>2. MaxSaves \in Nat
    BY SaveAssumption
  <1>3. CASE era = 0
    BY <1>2, <1>3 DEF StampOf, Era3
  <1>4. CASE era = 1
    BY <1>2, <1>4 DEF StampOf, Era3
  <1>5. CASE era = 2
    BY <1>2, <1>5 DEF StampOf, Era3
  <1> QED
    BY <1>1, <1>3, <1>4, <1>5

\* A save begins with a stamp that no backup has, and keeps it to itself.
LEMMA NextStamps ==
    ASSUME Base, StampsUsed, [Next]_vars
    PROVE  StampsUsed'
  <1> USE DEF Base
  <1>1. TypeOK /\ TypeOK'
    BY NextBase
  <1>2. saves \in Nat /\ saves' \in Nat
    BY <1>1, SaveAssumption DEF TypeOK
  <1>3. CASE Begin
    <2>1. /\ save'.pc = "read" /\ save'.stamp = era * (MaxSaves + 1) + saves'
          /\ saves' = saves + 1 /\ saves < MaxSaves /\ bak' = bak /\ era \in Era
      BY <1>1, <1>3 DEF Begin, disk, TypeOK
    <2>2. save'.stamp = StampOf(era, saves + 1)
      BY <1>1, <1>2, <2>1, StampIsOf
    <2>3. ASSUME NEW s \in DOMAIN bak PROVE s # save'.stamp /\ Stamped(s, saves + 1)
      <3>1. PICK f \in Era, k \in 1..saves : s = StampOf(f, k)
        BY DEF StampsUsed, Stamped
      <3>2. k \in 1..(saves + 1)
        BY <1>2
      <3> QED
        BY <1>2, <2>1, <2>2, <3>1, <3>2, StampsDiffer DEF Stamped
    <2> QED
      BY <1>2, <2>1, <2>2, <2>3 DEF StampsUsed
  <1>4. CASE CreateBackup
    <2>1. saves' = saves /\ save.pc = "backup"
      BY <1>4 DEF CreateBackup
    <2>2. save'.stamp = save.stamp /\ save'.pc \in {"fill", "idle"}
      BY <1>1, <1>4 DEF CreateBackup, Fails, To, TypeOK
    <2>3. Stamped(save.stamp, saves)
      <3>1. saves \in 1..saves
        BY <1>2, <2>1 DEF StampsUsed
      <3> QED
        BY <2>1, <3>1 DEF StampsUsed, Stamped
    <2>4. DOMAIN bak' \subseteq DOMAIN bak \cup {save.stamp}
      BY <1>1, <1>4, BackupType DEF CreateBackup
    <2>5. \A s \in DOMAIN bak' : Stamped(s, saves)
      BY <2>3, <2>4 DEF StampsUsed
    <2> QED
      BY <2>1, <2>2, <2>5 DEF StampsUsed, Stamped
  <1>5. CASE FillBackup
    <2>1. /\ saves' = saves /\ save.pc = "fill" /\ save'.stamp = save.stamp
          /\ save'.pc \in {"temp", "idle"}
      BY <1>1, <1>5 DEF FillBackup, Fails, To, TypeOK
    <2>2. DOMAIN bak' = DOMAIN bak
      BY <1>1, <1>5, BackupType DEF FillBackup, Places, OwnTorn, OldIsRead
    <2> QED
      BY <2>1, <2>2 DEF StampsUsed, Stamped
  <1>6. CASE Remove
    <2>1. DOMAIN bak' \subseteq DOMAIN bak
      BY <1>1, <1>6, BackupType DEF Remove
    <2>2. saves' = saves /\ save' = save
      BY <1>6 DEF Remove
    <2> QED
      BY <2>1, <2>2 DEF StampsUsed, Stamped
  <1>7. CASE ReadExisting
    <2>1. /\ saves' = saves /\ bak' = bak /\ save.pc = "read" /\ save'.stamp = save.stamp
          /\ save'.pc \in {"backup", "temp"}
      BY <1>1, <1>7 DEF ReadExisting, disk, To, TypeOK
    <2> QED
      BY <2>1 DEF StampsUsed, Stamped
  <1>8. CASE CreateTemp \/ WriteTemp \/ Rename \/ Glob \/ Return \/ Crash
    <2>1. saves' = saves /\ bak' = bak /\ save.pc # "idle"
      BY <1>8 DEF CreateTemp, WriteTemp, Rename, Glob, Return, Crash, disk
    <2>2. save'.stamp = save.stamp /\ save'.pc \in {"write", "rename", "glob", "prune", "idle"}
      BY <1>1, <1>8 DEF CreateTemp, WriteTemp, Rename, Glob, Return, Crash, Fails, To,
             TypeOK
    <2> QED
      BY <2>1, <2>2 DEF StampsUsed, Stamped
  <1>9. CASE Edit \/ SetClock \/ UNCHANGED vars
    <2>1. saves' = saves /\ bak' = bak /\ save' = save
      BY <1>9 DEF Edit, SetClock, vars, disk
    <2> QED
      BY <2>1 DEF StampsUsed, Stamped
  <1> QED
    BY <1>3, <1>4, <1>5, <1>6, <1>7, <1>8, <1>9 DEF Next

\* The oldest of the list is removed first, so that the others keep their later
\* backups.
LEMMA NextTodo ==
    ASSUME Base, TodoOld, [Next]_vars
    PROVE  TodoOld'
  <1> USE DEF Base
  <1>1. TypeOK /\ TypeOK' /\ Places'
    BY NextBase
  <1>2. CASE todo' = {}
    BY <1>2 DEF TodoOld
  <1>3. CASE Glob
    BY <1>3 DEF Glob, disk, TodoOld, Oldest, Later
  <1>4. CASE Remove
    <2>1. PICK r \in todo : /\ \A t \in todo : r <= t
                            /\ todo' = todo \ {r}
                            /\ bak' = Without(r) \/ bak' = bak
      BY <1>4 DEF Remove
    <2>2. ASSUME NEW t \in todo' PROVE Later(t)' = Later(t)
      <3>1. t \in Int /\ r \in Int /\ r <= t
        <4>1. t \in todo /\ todo \subseteq Stamp
          BY <1>1, <2>1 DEF TypeOK
        <4>2. Stamp \subseteq Int
          BY DEF Stamp
        <4> QED
          BY <2>1, <4>1, <4>2
      <3>2. DOMAIN bak' = DOMAIN bak \/ DOMAIN bak' = DOMAIN bak \ {r}
        BY <1>1, <2>1, BackupType
      <3> QED
        BY <3>1, <3>2 DEF Later
    <2> QED
      BY <2>1, <2>2 DEF TodoOld
  <1>5. CASE bak' = bak /\ todo' = todo
    BY <1>5 DEF TodoOld, Later
  <1>6. todo' = {} \/ Glob \/ Remove \/ (bak' = bak /\ todo' = todo)
    <2>1. CASE CreateBackup \/ FillBackup
      BY <2>1 DEF CreateBackup, FillBackup, Places, TodoInPrune
    <2>2. CASE Begin \/ ReadExisting \/ CreateTemp \/ WriteTemp \/ Rename \/ Return
      BY <2>2 DEF Begin, ReadExisting, CreateTemp, WriteTemp, Rename, Return, disk
    <2>3. CASE Edit \/ SetClock \/ UNCHANGED vars
      BY <2>3 DEF Edit, SetClock, vars, disk
    <2>4. CASE Crash
      <3>1. todo' = {}
        BY <2>4 DEF Crash
      <3> QED
        BY <3>1
    <2>5. CASE Glob \/ Remove
      BY <2>5
    <2> QED
      BY <2>1, <2>2, <2>3, <2>4, <2>5 DEF Next
  <1> QED
    BY <1>2, <1>3, <1>4, <1>5, <1>6

\* What is held stays so while no backup is touched.
LEMMA HeldStays ==
    ASSUME Base, UndoHeld, UNCHANGED <<bak, undo>>, Settled' => Settled /\ Extra <= Extra'
    PROVE  UndoHeld'
  <1>1. ASSUME NEW i \in DOMAIN undo, NEW s \in DOMAIN bak, Holds(i, s)
        PROVE  Holds(i, s)'
    <2>1. Later(s)' = Later(s)
      BY DEF Later
    <2>2. Cardinality(Later(s)) \in Int /\ Len(undo) \in Int /\ i \in Int
      <3>1. Later(s) \in SUBSET DOMAIN bak
        BY DEF Later
      <3> QED
        BY <3>1, BackupsFinite DEF Base, TypeOK
    <2>3. Extra \in Int /\ Extra' \in Int
      BY DEF Extra
    <2> QED
      BY <1>1, <2>1, <2>2, <2>3 DEF Holds
  <1> QED
    BY <1>1 DEF UndoHeld

\* A save adds its backup behind all others, with no content that is undone in it.
LEMMA CreateBackupUndo ==
    ASSUME Base, UndoInv, CreateBackup
    PROVE  UndoHeld'
  <1> USE DEF Base, CreateBackup
  <1>1. CASE Fails /\ UNCHANGED bak
    <2>1. ~Settled'
      BY <1>1 DEF Fails, Settled, To, TypeOK
    <2> QED
      BY <1>1, <2>1, HeldStays DEF UndoInv
  <1>2. CASE bak' = WithBackup(Torn) /\ To("fill") /\ UNCHANGED <<fails, result, junk>>
    <2>1. save.stamp \notin DOMAIN bak
      BY DEF UndoInv, StampsUsed
    <2>2. /\ DOMAIN bak' = DOMAIN bak \cup {save.stamp}
          /\ \A t \in DOMAIN bak : bak'[t] = bak[t]
      BY <1>2, <2>1, BackupType
    <2>3. Extra = 0 /\ Extra' = 1 /\ (Settled' => Settled)
      BY <1>2 DEF Extra, Settled, To, TypeOK
    <2>4. ASSUME NEW i \in DOMAIN undo, NEW s \in DOMAIN bak, Holds(i, s)
          PROVE  Holds(i, s)'
      <3>1. IsFiniteSet(Later(s)) /\ Cardinality(Later(s)) \in Nat
        BY BackupsFinite DEF Later
      <3>2. Later(s)' \in SUBSET (Later(s) \cup {save.stamp})
        BY <2>2 DEF Later
      <3>3. /\ Cardinality(Later(s)') \in Nat
            /\ Cardinality(Later(s)') <= Cardinality(Later(s)) + 1
        <4>1. /\ IsFiniteSet(Later(s) \cup {save.stamp})
              /\ Cardinality(Later(s) \cup {save.stamp}) \in Nat
              /\ Cardinality(Later(s) \cup {save.stamp}) <= Cardinality(Later(s)) + 1
          <5>1. /\ IsFiniteSet(Later(s) \cup {save.stamp})
                /\ \/ Cardinality(Later(s) \cup {save.stamp}) = Cardinality(Later(s))
                   \/ Cardinality(Later(s) \cup {save.stamp}) = Cardinality(Later(s)) + 1
            BY <3>1, FS_AddElement
          <5> QED
            BY <3>1, <5>1
        <4>2. IsFiniteSet(Later(s)') /\ Cardinality(Later(s)') \in Nat
          BY <3>2, <4>1, FS_Subset, FS_CardinalityType
        <4>3. Cardinality(Later(s)') <= Cardinality(Later(s) \cup {save.stamp})
          BY <3>2, <4>1, FS_Subset
        <4> QED
          BY <3>1, <4>1, <4>2, <4>3
      <3>4. Len(undo) \in Int /\ i \in Int
        BY DEF TypeOK
      <3> QED
        BY <2>2, <2>3, <2>4, <3>1, <3>3, <3>4 DEF Holds
    <2> QED
      BY <2>2, <2>4 DEF UndoInv, UndoHeld
  <1> QED
    BY <1>1, <1>2

\* The backup that is written held nothing before.
LEMMA FillBackupUndo ==
    ASSUME Base, UndoInv, FillBackup
    PROVE  UndoHeld'
  <1> USE DEF Base, FillBackup
  <1>1. CASE Fails /\ UNCHANGED bak
    <2>1. ~Settled'
      BY <1>1 DEF Fails, Settled, To, TypeOK
    <2> QED
      BY <1>1, <2>1, HeldStays DEF UndoInv
  <1>2. CASE bak' = WithBackup(save.old) /\ To("temp") /\ UNCHANGED <<fails, result, junk>>
    <2>1. save.old \in Content /\ save.stamp \in DOMAIN bak /\ bak[save.stamp] = Torn
      BY DEF Places, OldIsRead, OwnTorn
    <2>2. /\ DOMAIN bak' = DOMAIN bak
          /\ \A t \in DOMAIN bak : t # save.stamp => bak'[t] = bak[t]
      BY <1>2, <2>1, BackupType
    <2>3. Extra' = Extra /\ (Settled' => Settled)
      BY <1>2 DEF Extra, Settled, To, TypeOK
    <2>4. ASSUME NEW i \in DOMAIN undo, NEW s \in DOMAIN bak, Holds(i, s)
          PROVE  Holds(i, s)'
      <3>1. s # save.stamp
        <4>1. undo[i] \in Content
          BY DEF TypeOK
        <4> QED
          BY <2>1, <2>4, <4>1 DEF Holds, Content, Torn
      <3>2. Later(s)' = Later(s)
        BY <2>2 DEF Later
      <3> QED
        BY <2>2, <2>3, <2>4, <3>1, <3>2 DEF Holds
    <2> QED
      BY <2>2, <2>4 DEF UndoInv, UndoHeld
  <1> QED
    BY <1>1, <1>2

\* A rename puts the content it replaces behind what was held: its own backup has
\* no later one, and each of the others one more.
LEMMA RenameUndo ==
    ASSUME Base, UndoInv, Rename
    PROVE  UndoHeld'
  <1> USE DEF Base, Rename
  <1>1. CASE Fails /\ UNCHANGED <<file, undo>>
    <2>1. ~Settled'
      BY <1>1 DEF Fails, Settled, To, TypeOK
    <2> QED
      BY <1>1, <2>1, HeldStays DEF UndoInv
  <1>2. CASE undo' = UndoNow /\ To("glob") /\ UNCHANGED <<fails, result, junk>>
    <2>1. bak' = bak /\ Extra = 1 /\ Extra' = 0 /\ (\A s \in DOMAIN bak : Later(s)' = Later(s))
      BY <1>2 DEF Extra, To, TypeOK, Later
    <2>2. CASE UndoNow = <<>>
      BY <1>2, <2>2, SaveAssumption DEF UndoHeld
    <2>3. CASE UndoNow # <<>>
      <3> DEFINE old == IF junk > 0 THEN <<>> ELSE undo
                 U == Append(old, file)
      <3>1. save.old = file /\ ~Behind /\ undo' = Newest(U)
        BY <1>2, <2>3 DEF UndoNow
      <3>2. old \in Seq(Content) /\ file \in Content
        BY DEF TypeOK
      <3>3. /\ U \in Seq(Content) /\ Len(U) = Len(old) + 1 /\ Len(old) \in Nat
            /\ U[Len(U)] = file /\ \A j \in 1..Len(old) : U[j] = old[j]
        <4> HIDE DEF old
        <4> QED
          BY <3>2
      <3>4. /\ Len(undo') \in Nat /\ DOMAIN undo' = 1..Len(undo') /\ Len(undo') <= Keep
            /\ \A i \in DOMAIN undo' : /\ Len(U) - Len(undo') + i \in 1..Len(U)
                                       /\ undo'[i] = U[Len(U) - Len(undo') + i]
        <4> HIDE DEF U
        <4>1. /\ Newest(U) \in Seq(Content)
              /\ Len(Newest(U)) = IF Len(U) > Keep THEN Keep ELSE Len(U)
              /\ \A i \in DOMAIN Newest(U) : /\ Len(U) - Len(Newest(U)) + i \in DOMAIN U
                                             /\ Newest(U)[i] = U[Len(U) - Len(Newest(U)) + i]
          BY <3>3, NewestType
        <4>2. U \in Seq(Content)
          BY <3>3
        <4>3. DOMAIN U = 1..Len(U) /\ Len(U) \in Nat
          BY <4>2
        <4>4. Keep \in Nat
          BY SaveAssumption
        <4> QED
          BY <3>1, <4>1, <4>3, <4>4
      <3>5. PICK own \in DOMAIN bak : bak[own] = file /\ Later(own) = {}
        <4>1. save.old # Absent
          BY <3>1, <3>2 DEF Content, Absent
        <4> QED
          BY <3>1, <4>1 DEF Places, OwnKept, Behind, Later
      <3>6. ASSUME NEW i \in DOMAIN undo' PROVE \E s \in DOMAIN bak' : Holds(i, s)'
        <4> DEFINE j == Len(U) - Len(undo') + i
        <4> HIDE DEF U
        <4>1. j \in 1..Len(U) /\ undo'[i] = U[j] /\ i \in Int /\ Len(undo') - i = Len(U) - j
          BY <3>3, <3>4
        <4>2. CASE j = Len(U)
          <5>1. Cardinality(Later(own)') = 0
            BY <2>1, <3>5, FS_EmptySet
          <5>2. Len(undo') - i + Extra' = 0
            BY <2>1, <3>3, <4>1, <4>2
          <5>3. Holds(i, own)'
            <6>1. bak'[own] = undo'[i] /\ own \in DOMAIN bak'
              BY <2>1, <3>3, <3>5, <4>1, <4>2
            <6> HIDE DEF j
            <6> QED
              BY <5>1, <5>2, <6>1 DEF Holds
          <5> QED
            BY <2>1, <3>5, <5>3
        <4>3. CASE j # Len(U)
          <5>1. j \in 1..Len(old)
            BY <3>3, <4>1, <4>3
          <5>2. junk = 0 /\ old = undo
            BY <5>1 DEF TypeOK
          <5>3. PICK s \in DOMAIN bak : Holds(j, s)
            <6>1. DOMAIN undo = 1..Len(undo)
              BY DEF TypeOK
            <6> HIDE DEF j, old
            <6> QED
              BY <5>1, <5>2, <6>1 DEF UndoInv, UndoHeld
          <5>4. Cardinality(Later(s)) <= Len(undo) - j + Extra
            BY <5>2, <5>3 DEF Holds, Settled
          <5>5. Len(undo) - j + Extra = Len(undo') - i + Extra'
            BY <2>1, <3>3, <4>1, <5>2
          <5>6. bak'[s] = undo'[i]
            BY <2>1, <3>3, <4>1, <5>1, <5>2, <5>3 DEF Holds
          <5>7. Holds(i, s)'
            BY <2>1, <5>4, <5>5, <5>6 DEF Holds
          <5> QED
            BY <2>1, <5>7
        <4> QED
          BY <4>2, <4>3
      <3> QED
        BY <3>4, <3>6 DEF UndoHeld
    <2> QED
      BY <2>2, <2>3
  <1> QED
    BY <1>1, <1>2

\* No backup that holds something is on the list: it has too few later ones.
LEMMA RemoveUndo ==
    ASSUME Base, UndoInv, Remove
    PROVE  UndoHeld'
  <1> USE DEF Base, Remove
  <1>1. PICK r \in todo : bak' = Without(r) \/ bak' = bak
    OBVIOUS
  <1>2. Settled /\ Extra = 0 /\ Extra' = 0
    BY DEF Settled, Extra
  <1>3. CASE bak' = bak
    BY <1>2, <1>3, HeldStays DEF UndoInv
  <1>4. CASE bak' = Without(r)
    <2>1. DOMAIN bak' = DOMAIN bak \ {r} /\ \A t \in DOMAIN bak' : bak'[t] = bak[t]
      BY <1>4, BackupType
    <2>2. ASSUME NEW i \in DOMAIN undo, NEW s \in DOMAIN bak, Holds(i, s)
          PROVE  s \in DOMAIN bak' /\ Holds(i, s)'
      <3>1. /\ IsFiniteSet(Later(s)) /\ Cardinality(Later(s)) \in Nat
            /\ Len(undo) \in Nat /\ i \in 1..Len(undo) /\ Keep \in Nat
        <4>1. Later(s) \in SUBSET DOMAIN bak
          BY DEF Later
        <4> QED
          BY <4>1, BackupsFinite, SaveAssumption DEF TypeOK
      <3>2. Cardinality(Later(s)) <= Len(undo) - i
        BY <1>2, <2>2, <3>1 DEF Holds
      <3>3. s # r
        <4>1. Cardinality(Later(r)) >= Keep /\ Len(undo) <= Keep
          BY DEF UndoInv, TodoOld, UndoHeld
        <4>2. Cardinality(Later(s)) < Keep
          BY <3>1, <3>2, <4>1
        <4> QED
          BY <3>1, <4>1, <4>2
      <3>4. Later(s)' \in SUBSET Later(s)
        BY <2>1 DEF Later
      <3>5. Cardinality(Later(s)') <= Cardinality(Later(s)) /\ Cardinality(Later(s)') \in Nat
        BY <3>1, <3>4, FS_Subset, FS_CardinalityType
      <3>6. Cardinality(Later(s)') <= Len(undo) - i + 0
        BY <3>1, <3>2, <3>5
      <3> QED
        BY <1>2, <2>1, <2>2, <3>3, <3>6 DEF Holds
    <2> QED
      BY <2>1, <2>2 DEF UndoInv, UndoHeld
  <1> QED
    BY <1>1, <1>3, <1>4

\* Every step keeps what can be brought back.
LEMMA NextUndo ==
    ASSUME Base, UndoInv, [Next]_vars
    PROVE  UndoInv'
  <1> USE DEF Base
  <1>1. StampsUsed' /\ TodoOld'
    BY NextStamps, NextTodo DEF UndoInv
  <1>2. UndoHeld'
    <2>1. CASE CreateBackup \/ FillBackup \/ Rename \/ Remove
      BY <2>1, CreateBackupUndo, FillBackupUndo, RenameUndo, RemoveUndo
    <2>2. CASE Begin \/ ReadExisting \/ Return \/ Glob
      <3>1. UNCHANGED <<bak, undo>> /\ Extra = 0
        BY <2>2 DEF Begin, ReadExisting, Return, Glob, disk, Extra
      <3>4. Settled' => Settled
        <4>1. CASE Begin \/ ReadExisting
          <5>1. junk' = junk /\ save'.pc \in {"read", "backup", "temp"}
            BY <4>1, ToType, ReadType DEF Begin, ReadExisting, Pc
          <5> QED
            BY <5>1 DEF Settled
        <4>2. CASE Return \/ Glob
          BY <4>2 DEF Return, Glob, Settled
        <4> QED
          BY <2>2, <4>1, <4>2
      <3>2. 0 <= Extra'
        BY DEF Extra
      <3> QED
        BY <3>1, <3>2, <3>4, HeldStays DEF UndoInv
    <2>3. CASE CreateTemp \/ WriteTemp
      <3>1. UNCHANGED <<bak, undo>>
        BY <2>3 DEF CreateTemp, WriteTemp
      <3>2. Settled' => Settled /\ Extra = 1 /\ Extra' = 1
        BY <2>3, ToType DEF CreateTemp, WriteTemp, Fails, Settled, Extra, TypeOK, Pc
      <3> QED
        BY <3>1, <3>2, HeldStays DEF UndoInv
    <2>4. CASE Crash
      <3>1. UNCHANGED <<bak, undo>> /\ save'.pc = "idle"
        BY <2>4 DEF Crash, TypeOK
      <3>2. Settled' => save.pc = "prune"
        BY <2>4, <3>1 DEF Crash, Settled, TypeOK
      <3>3. save.pc = "prune" => Settled /\ Extra = 0 /\ Extra' = 0
        BY <3>1 DEF Settled, Extra
      <3> QED
        BY <3>1, <3>2, <3>3, HeldStays DEF UndoInv
    <2>5. CASE Edit \/ SetClock \/ UNCHANGED vars
      <3>1. UNCHANGED <<bak, undo, save, junk>>
        BY <2>5 DEF Edit, SetClock, vars, disk
      <3>2. Settled' = Settled /\ Extra' = Extra
        BY <3>1 DEF Settled, Extra
      <3>3. Extra \in Int
        BY DEF Extra
      <3> QED
        BY <3>1, <3>2, <3>3, HeldStays DEF UndoInv
    <2> QED
      BY <2>1, <2>2, <2>3, <2>4, <2>5 DEF Next
  <1> QED
    BY <1>1, <1>2 DEF UndoInv

\* What a save that succeeded has replaced is whole in a backup, for as many saves as
\* backups are kept: unless a save between has failed or died (it may leave a backup
\* that counts), the clock was set back (the new backups sort first), or the file was
\* edited between the save's read and its rename (reloader.go:94-101, 129-141).
THEOREM UndoStays == Spec => []UndoKept
  <1>1. Init => UndoInv
    <2> SUFFICES ASSUME Init PROVE UndoInv
      OBVIOUS
    <2>1. DOMAIN bak = {} /\ undo = <<>> /\ todo = {} /\ save.pc = "idle"
      BY DEF Init, Idle
    <2> QED
      BY <2>1, SaveAssumption DEF UndoInv, StampsUsed, TodoOld, UndoHeld
  <1>2. Base /\ UndoInv /\ [Next]_vars => UndoInv'
    BY NextUndo
  <1>3. UndoInv => UndoKept
    BY DEF UndoInv, UndoHeld, Holds, UndoKept
  <1> QED
    BY <1>1, <1>2, <1>3, BaseInvariant, PTL DEF Spec
=============================================================================
