SPECIFICATION Spec
CONSTANTS
  Keep = 2
  MaxSaves = 5
  MaxEdits = 1
  MaxFails = 2
  MaxCrashes = 1
  MaxSets = 2
CHECK_DEADLOCK FALSE
INVARIANTS
  UndoKept
  BackupsBounded
PROPERTIES
  ImplementsAtomicFile
\* These hold, too.
\* INVARIANT TypeOK
