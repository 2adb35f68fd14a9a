SPECIFICATION FairSpec
CONSTANTS
  q1 = q1
  q2 = q2
  q3 = q3
  q4 = q4
  pr1 = pr1
  pr2 = pr2
  ua = ua
  ub = ub
  Query <- ThreeQueries
  Probe <- TwoProbes
  Upstream <- TwoUpstreams
  Threshold = 2
CHECK_DEADLOCK FALSE
INVARIANTS
  LosersBeforeClose
PROPERTIES
  FailsOnlyTogether
  
  CloseEnds
\* These hold, too.
\* INVARIANT TypeOK
\* PROPERTY LegsEnd
