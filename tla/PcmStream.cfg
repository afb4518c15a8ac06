\* Safety of a stream under all its threads.
SPECIFICATION Spec
CONSTANTS
  h1 = h1
  h2 = h2
  nobody = nobody
  Handlers <- MCHandlers
  Nobody = nobody
  HasPeer = TRUE
INVARIANT IInv
INVARIANT OneLatePeriod
INVARIANT RunningHasIo
INVARIANT ClosedIsStopped
INVARIANT NoIoLeftOn
SYMMETRY MCSymmetry
VIEW MCView
