\* Four identifiers, at most three records, three hashes of two slots of three bits.
CONSTANTS
  Id = {1, 2, 3, 4}
  Slots = 2
  Bits = 3
  Hash <- MCHash
  Query <- MCQuery
  None = None
  End = 3
  Budget <- MCBudget
  MaxReserve = 4
  MaxBuild = 2
SPECIFICATION Spec
INVARIANTS
  IndexConsistent
  SearchExact
PROPERTIES
  ImplementsPdqIndex
