SPECIFICATION Spec
CONSTANTS
  r1 = r1
  r2 = r2
  r3 = r3
  Items = {r1, r2, r3}
  Size <- Sizes
  Refused = {r1}
  MaxBytes = 3
  MaxAge = 1
INVARIANTS
  AgedOnlyAfterAttempt
