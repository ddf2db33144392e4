\* Files of up to three packets, timestamps of three bits.
CONSTANTS
  Time <- MCTime
  Width = 3
  Interval = {0, 2, 3}
  Delay = {0, 1}
  Other = Other
  NoTime = NoTime
  MaxPackets = 3
  MaxProbes = 3
  MaxCalls = 4
SPECIFICATION Spec
INVARIANTS
  TypeOK
  SampleExact
  NeverBackward
PROPERTIES
  EndFinal
  Returns
