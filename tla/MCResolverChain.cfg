SPECIFICATION FairSpec
CONSTANTS
  q1 = q1
  q2 = q2
  n1 = n1
  n2 = n2
  Name <- OneName
  FileAddress <- OneAddress
  InConfig <- NoExtra
  MaxEdits = 1
  Zone <- Corp
  MaxChanges = 2
  Query <- TwoQueries
  Chains <- SmallChains
CHECK_DEADLOCK FALSE
INVARIANTS
  AnswerIsRouted
  BreakIsFinal
  NoneInsideClosed
  NothingRuns
PROPERTIES
  CloseEnds
  PreloaderConverges
\* These hold, too.
\* INVARIANT TypeOK
\* PROPERTY KeepsServing
\* PROPERTY FileConverges
\* INVARIANT LastFailureIsReported
