\* Safety, refinement of Fifo and progress of the senders.
SPECIFICATION FairSpec
CONSTANTS
  s1 = s1
  s2 = s2
  s3 = s3
  m1 = m1
  m2 = m2
  Senders <- MCSenders
  Message <- MCMessage
  ElCount = 3
INVARIANT IInv
INVARIANT SlotFree
PROPERTY DeliversEverySend
PROPERTY SubmissionComesBack
