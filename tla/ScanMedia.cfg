\* Two threads over up to three files, one traversal issue.
CONSTANTS
  Workers = 2
  MaxFiles = 3
  MaxIssues = 1
SPECIFICATION Spec
INVARIANTS
  TypeOK
  ExclusivePositions
  CompleteResult
  EveryFileReported
  CancelledOnlyIfStopped
  FailureReported
  SerializedReports
PROPERTIES
  MonotonicReports
  FinishedEntriesStable
  Terminates
  ImplementsContract
