SPECIFICATION FairSpec
CONSTANTS
  r1 = r1
  r2 = r2
  r3 = r3
  Items = {r1, r2, r3}
  Size <- Sizes
  Refused = {r3}
  MaxBytes = 3
  MaxAge = 1
INVARIANTS
  TypeOK
  ByteBound
PROPERTIES
  EventuallyDelivered
  ImplementsStore
