\* One file, rewritten up to twice while it is processed.
CONSTANTS
  Photo = Photo
  Clip = Clip
  Text = Text
  File = {f}
  Content = {Photo, Clip, Text}
  Size <- MCSize
  Media <- MCMedia
  Torn = Torn
  Nothing = Nothing
  Bad = Bad
  MaxWrites = 2
SPECIFICATION Spec
INVARIANTS
  OneVersion
  CacheCoherent
  FingerprintOrIssue
  EntryRepaired
