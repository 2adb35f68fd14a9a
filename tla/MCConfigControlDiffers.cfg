SPECIFICATION Spec
CONSTANTS
  t1 = t1
  t2 = t2
  r1 = r1
  r2 = r2
  flaky = flaky
  s1 = s1
  s2 = s2
  s3 = s3
  p1 = p1
  p2 = p2
  Top <- TwoTops
  Res <- TwoRes
  BadRes <- NoRes
  FlakyRes <- NoRes
  Poster <- NoPoster
  Server <- ThreeServers
  Broken = broken
  None = none
  MaxEdits = 2
  MaxRefresh = 0
  MaxChanges = 3
CHECK_DEADLOCK FALSE
SYMMETRY Symmetric
\* One of these at a time: the code keeps none of them.
PROPERTY SwapTargetsLiveServer
\* INVARIANT FileIsRun
\* INVARIANT ApiKeyInEffect
\* A save alone: Top <- OneTop, Res <- WithFlaky, FlakyRes <- FlakyOne,
\* Poster <- OnePoster, MaxEdits = 0.
\* PROPERTY FailedSaveLeavesDisk
\* INVARIANT SelfWriteSkipped
\* INVARIANT SelfWriteKeepsListeners
