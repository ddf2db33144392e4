\* Two threads of two calls each, two images.
CONSTANTS
  Thread = {t1, t2}
  Image = {a, b}
  Nobody = Nobody
  Trouble = {"none", "refused", "unloadable", "damaged", "warns", "pool", "nonfinite"}
  MaxCalls = 2
SPECIFICATION Spec
INVARIANTS
  OwnDiagnostics
  OwnVerdict
PROPERTIES
  Returns
