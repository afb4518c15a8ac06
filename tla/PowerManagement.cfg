\* Suspend, resume and shutdown, with commands that fail: safety and progress.
SPECIFICATION FairSpec
CONSTANTS
  MaxSleeps = 3
  MaxSent = 3
INVARIANT IInv
INVARIANT OnlyASlippedWorkRuns
INVARIANT QuiescedIsOff
INVARIANT OffWhenStopped
INVARIANT ResumedInFull
PROPERTY DeferredResumeEnds
