\* A playback stream run three times, and the periods of a capture stream.
SPECIFICATION Spec
CONSTANTS
  Sizes <- MCSizes
  HostPackets = 16640
  Packets <- MCPackets
  Rates <- MCRates
  MaxWritten = 5
  MaxRuns = 3
  MaxAsked = 2
INVARIANT IInv
INVARIANT PeriodsFit
INVARIANT PlaysWhatWasWritten
CHECK_DEADLOCK FALSE
