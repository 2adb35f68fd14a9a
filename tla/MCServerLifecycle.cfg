SPECIFICATION FairSpec
CONSTANTS
  MaxServers = 3
  MaxFails = 2
  MaxBreaks = 1
CHECK_DEADLOCK FALSE
INVARIANTS
  DrainedBeforeClosed
  PortalReachable
PROPERTIES
  RebuildEnds
  ListensInTheEnd
\* These hold, too.
\* INVARIANT TypeOK
\* INVARIANT OneAnswers
