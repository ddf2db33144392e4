\* Bytes of four values, images of up to two variants, budgets of one and two frames.
CONSTANTS
  Base = 4
  HashWidth = 1
  CountWidth = 2
  TimeWidth = 1
  MaxQuality = 2
  MaxVariants = 2
  Fingerprint <- MCFingerprint
  Payload <- MCPayload
  Budget = {1, 2}
  Settings <- MCSettings
  DimensionLimit = 2
  PixelLimit = 2
  LeastTarget = 2
  Refused = Refused
  None = None
SPECIFICATION Spec
INVARIANTS
  CodecExact
  SettingsDistinct
CHECK_DEADLOCK FALSE
