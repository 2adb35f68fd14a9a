SPECIFICATION FairSpec
CONSTANTS
  t1 = t1
  t2 = t2
  Tab <- OneTab
  MaxEdits = 2
  MaxWrites = 1
  MaxFaults = 1
  MaxKeys = 1
CHECK_DEADLOCK FALSE
INVARIANTS
  NoSilentLoss
  CleanMeansSaved
PROPERTIES
  NoBlindOverwrite
\* These hold, too.
\* INVARIANT TypeOK
\* PROPERTY BusyEnds
\* INVARIANT SavedBadgeIsTrue
