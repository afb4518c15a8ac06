\* Safety, refinement of Fifo and progress.
SPECIFICATION FairSpec
CONSTANTS
  m1 = m1
  m2 = m2
  Message <- MCMessage
  ElCount = 3
INVARIANT IInv
PROPERTY HandlesEveryMessage
PROPERTY MessagesAreHandled
