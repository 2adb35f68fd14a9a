SPECIFICATION FairSpec
CONSTANTS
  t1 = t1
  t2 = t2
  r1 = r1
  r2 = r2
  flaky = flaky
  s1 = s1
  s2 = s2
  s3 = s3
  p1 = p1
  p2 = p2
  Top <- TwoTops
  Res <- OneRes
  BadRes <- NoRes
  FlakyRes <- NoRes
  Poster <- OnePoster
  Server <- ThreeServers
  Broken = broken
  None = none
  MaxEdits = 1
  MaxRefresh = 1
  MaxChanges = 3
CHECK_DEADLOCK FALSE
PROPERTIES
  Quiesces
\* These hold, too.
\* PROPERTY PostAnswered
