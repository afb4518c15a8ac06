\* Progress of a stream's threads.
SPECIFICATION FairSpec
CONSTANTS
  h1 = h1
  h2 = h2
  nobody = nobody
  Handlers <- MCOneHandler
  Nobody = nobody
  HasPeer = FALSE
PROPERTY NobodyHangs
PROPERTY PeriodsGoOn
