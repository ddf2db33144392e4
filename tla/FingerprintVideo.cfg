\* Files of up to three packets, three hashes, budgets of one and two frames.
CONSTANTS
  Time <- MCTime
  Width = 2
  Interval = {0, 1}
  Delay = {1}
  Other = Other
  NoTime = NoTime
  MaxPackets = 3
  MaxProbes = 2
  MaxCalls = 4
  Hash = {0, 1, 2}
  Distance <- MCDistance
  MaxDistance = {1}
  Everything = Everything
  Budget = {1, 2}
SPECIFICATION SpecVideo
INVARIANTS
  SignatureExact
  PruneAgrees
