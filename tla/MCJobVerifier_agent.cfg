SPECIFICATION Spec
CONSTANTS
  n1 = n1
  n2 = n2
  n3 = n3
  c1 = c1
  Envelopes <- AllEnvelopes
  Nonces = {n1, n2, n3}
  Callers = {c1}
  Major = 1
  RequireSigned = TRUE
  Skew = 1
  NonceLimit = 2
  MaxTime = 5
INVARIANTS
  TypeOK
  CacheBounded
  RefusalJustified
PROPERTIES
  NoReplay
