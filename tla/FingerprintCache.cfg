\* Two threads with three calls, two keys, one fault.
CONSTANTS
  Client = {c1, c2}
  Key = {k1, k2}
  Value = {v1}
  Name = {n1, n2}
  Attempts = 2
  Absent = Absent
  Empty = Empty
  NoClient = NoClient
  NoName = NoName
  Missing = Missing
  NotFile = NotFile
  Damaged = Damaged
  MaxCalls = 3
  MaxFaults = 1
SPECIFICATION Spec
INVARIANTS
  StagingExclusive
  NoSharingViolation
  OnlyCrashLeaks
PROPERTIES
  Answered
  ImplementsAtomicCache
