\* A tree of six paths, of which one changes at any time; two roots.
CONSTANTS
  Path <- MCPath
  Parent <- MCParent
  Name <- MCName
  Canonical <- MCCanonical
  RootCount = 2
  MaxFiles = 2
  Cache = "r/c"
  Trees <- MCTrees
  MaxChanges = 1
  ChangeKind = {"absent", "file", "dir", "dirlink", "broken"}
  None = None
SPECIFICATION Spec
INVARIANTS
  MissingHasIssue
  OnlyWanted
CHECK_DEADLOCK FALSE
