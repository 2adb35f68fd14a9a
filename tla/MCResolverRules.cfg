SPECIFICATION RulesSpec
CONSTANTS
  a = a
  b = b
  t1 = t1
  t2 = t2
  t3 = t3
  f1 = f1
  f2 = f2
  f3 = f3
  Config = Config
  Empty = Empty
  BadPattern = BadPattern
  Label <- TwoLabels
  Kinds <- AllKinds
  Text <- ThreeTexts
  File <- TwoFiles
  MaxLabels = 2
  MaxRules = 3
  MaxLines = 2
  MaxChanges = 1
CHECK_DEADLOCK FALSE
SYMMETRY Symmetric
INVARIANTS
  FollowsPriority
  DepthBounded
PROPERTIES
  ParsedIsFlat
\* These hold, too.
\* INVARIANT IncludeTypeOK
\* INVARIANT TreeIsSuffixSet
