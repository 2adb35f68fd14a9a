SPECIFICATION MdnsFairSpec
CONSTANTS
  q1 = q1
  q2 = q2
  qx = qx
  n1 = n1
  n2 = n2
  a1 = a1
  A1 = A1
  a2 = a2
  Name <- TwoNames
  Question <- Questions
  Lower <- LowerOf
  Lookup <- ThreeLookups
  NonA <- OneNonA
  AskOf <- TwoSpellings
  MaxPackets = 2
CHECK_DEADLOCK FALSE
INVARIANTS
  NobodyPassedBy
  DeafIsNoMiss
PROPERTIES
  ResolveReturns
\* These hold, too.
\* INVARIANT MdnsTypeOK
\* INVARIANT ClosedIsQuiet
\* INVARIANT NoWaiterLeft
\* INVARIANT AnswerIsOwn
\* PROPERTY MdnsCloseEnds
