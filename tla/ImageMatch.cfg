\* Indexes of up to three records, filled in any order, queries of two variants.
CONSTANTS
  Slots = 1
  Bits = 2
  Record <- MCRecord
  Query <- MCQuery
  ImagePolicy <- MCPolicy
  Self = {10, 40}
  Missing = 9
  MaxRecords = 3
SPECIFICATION SpecImages
INVARIANT BestMatches
CHECK_DEADLOCK FALSE
