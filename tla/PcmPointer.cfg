\* The pointer over three rings of four frames, of twelve units and a fraction.
SPECIFICATION Spec
CONSTANTS
  BufferSize = 4
  Rate = 5
  Second = 16
  Latencies <- MCLatencies
  Lengths <- MCLengths
  Drift = 1
  Errors <- MCErrors
  MaxDelay = 3
  MaxGap = 3
  MaxTime = 42
INVARIANT IInv
INVARIANT InStep
