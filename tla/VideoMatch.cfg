\* Signatures of up to two frames, catalogues of up to two records.
CONSTANTS
  Slots = 1
  Bits = 2
  Input <- MCInput
  Signature <- MCSignature
  Self = {1, 4}
  VideoPolicy <- MCPolicy
  Missing = 9
SPECIFICATION SpecVideos
INVARIANT MatchesExact
CHECK_DEADLOCK FALSE
