\* Two probes of a T2 with two audio devices, and a jack that changes three times.
SPECIFICATION Spec
CONSTANTS
  codec = codec
  microphone = microphone
  stranger = stranger
  w1 = w1
  w2 = w2
  Devices <- MCDevices
  JackDevice = codec
  HostDevices <- MCHostDevices
  Works <- MCWorks
  Published <- MCPublished
  MaxProbes = 2
  MaxPlugs = 3
INVARIANT IInv
INVARIANT BuffersNamed
INVARIANT JackFollows
CHECK_DEADLOCK FALSE
