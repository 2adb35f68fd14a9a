SPECIFICATION FairSpec
CONSTANTS
  u1 = u1
  u2 = u2
  h1 = h1
  post = post
  watcher = watcher
  main = main
  g1 = g1
  g2 = g2
  g3 = g3
  g4 = g4
  noGen = noGen
  Main = main
  NoGen = noGen
  UdpQuery <- OneUdp
  HttpQuery <- NoProc
  HttpSwap <- Post
  ReloadSwap <- Watcher
  Gen <- ThreeGens
INVARIANTS
  RefCountExact
  NoUseAfterClose
  OneCloser
  NothingLeaked
PROPERTIES
  RetiredOnlyDrains
  ShutdownCompletes
  ImplementsLifecycle
\* These hold, too.
\* PROPERTY RetiredGetsClosed
\* PROPERTY ClosedForGood
\* INVARIANT TypeOK
