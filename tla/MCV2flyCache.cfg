SPECIFICATION FairSpec
CONSTANTS
  l1 = l1
  l2 = l2
  b1 = b1
  Lists <- OneList
  Reloader <- OneReloader
  MaxVersion = 2
  MaxBuilds = 1
  MaxExpiries = 1
  MaxCrashes = 1
  MaxFaults = 1
CHECK_DEADLOCK FALSE
INVARIANTS
  MissingIsPending
  TornIsHidden
PROPERTIES
  DownloadTakesEffect
  DownloadsEnd
\* These hold, too.
\* INVARIANT TypeOK
