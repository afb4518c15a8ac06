\* Three devices, one other thread, and four buffers.
SPECIFICATION Spec
CONSTANTS
  prober = prober
  w1 = w1
  b1 = b1
  b2 = b2
  b3 = b3
  b4 = b4
  Buffers <- MCBuffers
  Prober = prober
  Workers <- MCWorkers
  Said <- MCSaid
  Words = 5
SYMMETRY MCSymmetry
INVARIANT IInv
INVARIANT ListedAsSaid
PROPERTY ListsInOrder
CHECK_DEADLOCK FALSE
