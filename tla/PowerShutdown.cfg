\* What the comment in t2audio_shutdown says of a shutdown.
SPECIFICATION Spec
CONSTANTS
  MaxSleeps = 1
  MaxSent = 2
INVARIANT ShutdownRevokes
