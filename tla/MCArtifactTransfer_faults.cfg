SPECIFICATION Spec
CONSTANTS
  empty = empty
  good = good
  other = other
  over = over
  long = long
  d1 = d1
  u1 = u1
  None = None
  Contents = {empty, good, other, over, long}
  Length <- Lengths
  Manifests <- Expected
  Downloads = {d1}
  Uploads = {u1}
  MaxDownloadBytes = 2
  MaxUploadBytes = 2
INVARIANTS
  TypeOK
  ReturnedVerified
  NoLitter
  UploadTruthful
  ExcessBounded
