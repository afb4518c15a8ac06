\* Safety, refinement of CommandRpc and progress.
SPECIFICATION FairSpec
CONSTANTS
  c1 = c1
  c2 = c2
  w1 = w1
  none = none
  Callers <- MCCallers
  Works <- MCWorks
  NoThread = none
  TagCount = 2
  OutCapacity = 2
  InCapacity = 2
  MaxIssued = 3
INVARIANT IInv
INVARIANT NoDanglingWaiter
INVARIANT ReplyMatches
INVARIANT RoomToSubmit
PROPERTY ImplementsRpc
PROPERTY CallsReturn
