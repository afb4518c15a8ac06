\* The clock and the mapping of timestamps, two seeds, either clock ahead.
SPECIFICATION Spec
CONSTANTS
  h1 = h1
  h2 = h2
  sd1 = sd1
  sd2 = sd2
  Handlers <- MCHandlers
  Seeds <- MCSeeds
  Skews <- MCSkews
  Orders <- MCOrders
  MaxTime = 2
  MaxSleeps = 1
SYMMETRY MCSymmetry
INVARIANT IInv
PROPERTY NoJitter
PROPERTY OldEpochIgnored
