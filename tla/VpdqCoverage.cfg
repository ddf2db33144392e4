\* Lists of up to four and twelve hashes of six bits, chunks of eight.
CONSTANTS
  Slots = 2
  Bits = 3
  From <- MCFrom
  To <- MCTo
  ChunkSize = 8
  Minimum = 2
  Probes = 2
  CostScale = 0
  CostBase = 0
SPECIFICATION SpecCoverage
INVARIANT CoverageExact
CHECK_DEADLOCK FALSE
